---- MODULE Spec2Model ----
(***************************************************************************)
(* SuiS3 command-line gateway (suis3_cli): one command invocation of       *)
(* do_command, from the parsed command to its terminal outcome, with the   *)
(* ledger gateway and the walrus blob substrate as external collaborators  *)
(* whose results are chosen nondeterministically.                          *)
(*                                                                         *)
(* Strings that the code inspects character by character (URIs, object     *)
(* names, file paths) are sequences of one-character strings.  Opaque      *)
(* strings (blob ids, error texts) are TLA+ strings.  Option<T> is a       *)
(* sequence of length 0 (None) or 1 (Some).                                *)
(***************************************************************************)
EXTENDS Integers, Sequences, FiniteSets, TLC

\* ------------------------------------------------------------------ bounds
\* longest text after the scheme token in a generated URI argument
MaxLen == 3

\* ------------------------------------------------------- character classes
\* the letters and digits the model's alphabet draws from [A-Za-z0-9]
Alnum == {"a", "B", "x", "s", "u", "i", "S", "U", "I", "d", "r", "c", "f", "3"}

\* [A-Za-z0-9\-\._] of the bucket group
BucketClass == Alnum \cup {"-", ".", "_"}

\* [A-Za-z0-9\-\._\/] of the object group
ObjectClass == BucketClass \cup {"/"}

None == <<>>

Some(x) == <<x>>

\* ------------------------------------------------------------ SUIS3_REGEXP
\* [sS][uU][iI][sS]3:\/\/ matched at position i of s
SchemeAt(s, i) ==
    /\ i + 7 <= Len(s)
    /\ s[i] \in {"s", "S"}
    /\ s[i + 1] \in {"u", "U"}
    /\ s[i + 2] \in {"i", "I"}
    /\ s[i + 3] \in {"s", "S"}
    /\ s[i + 4] = "3"
    /\ s[i + 5] = ":"
    /\ s[i + 6] = "/"
    /\ s[i + 7] = "/"

\* end (exclusive) of the longest run of characters of class cls from i
RunEnd(s, i, cls) ==
    CHOOSE j \in i..(Len(s) + 1) :
        /\ \A k \in i..(j - 1) : s[k] \in cls
        /\ (j = Len(s) + 1 \/ s[j] \notin cls)

\* a bucket group that stops after its first character (a lazy quantifier)
BucketEndLazy(s, i) ==
    IF i <= Len(s) /\ s[i] \in BucketClass THEN i + 1 ELSE i

\* (?P<bucket>[...]+) is greedy; the object group that follows can match the
\* empty string, so the regex never gives back a character of the bucket
BucketEnd(s, i) == RunEnd(s, i, BucketClass)

\* (?P<object>[...]*) from position i
ObjectEnd(s, i) == RunEnd(s, i, ObjectClass)

\* the pattern matches with its first character at position i
MatchAt(s, i) == SchemeAt(s, i) /\ BucketEnd(s, i + 8) > i + 8

\* Regex::captures: the leftmost match anywhere in the text (the pattern has
\* no ^ or $ anchor), or None
Captures(s) ==
    IF \E i \in 1..Len(s) : MatchAt(s, i)
    THEN LET i == CHOOSE i \in 1..Len(s) :
                     MatchAt(s, i) /\ \A k \in 1..(i - 1) : ~MatchAt(s, k)
             b == BucketEnd(s, i + 8)
             o == ObjectEnd(s, b)
         IN  Some([bucket |-> SubSeq(s, i + 8, b - 1),
                   object |-> SubSeq(s, b, o - 1)])
    ELSE None

\* ---------------------------------------------------------- Path::file_name
\* the text of p between separators, empty pieces included
RECURSIVE SplitFrom(_, _, _)
SplitFrom(p, i, cur) ==
    IF i > Len(p) THEN <<cur>>
    ELSE IF p[i] = "/" THEN <<cur>> \o SplitFrom(p, i + 1, <<>>)
    ELSE SplitFrom(p, i + 1, Append(cur, p[i]))

\* Path::components after the root: empty pieces are dropped, and "." is
\* dropped except as the first piece of a relative path
Components(p) ==
    LET segs == SplitFrom(p, 1, <<>>)
        keep(k) == /\ segs[k] # <<>>
                   /\ (segs[k] = <<".">> => (k = 1))
        idx == {k \in 1..Len(segs) : keep(k)}
        RECURSIVE Pick(_)
        Pick(k) == IF k > Len(segs) THEN <<>>
                   ELSE IF k \in idx THEN <<segs[k]>> \o Pick(k + 1)
                   ELSE Pick(k + 1)
    IN  Pick(1)

\* Path::file_name: the last component when it is a normal one
FileName(p) ==
    LET cs == Components(p)
    IN  IF cs = <<>> THEN None
        ELSE IF cs[Len(cs)] \in {<<".">>, <<".", ".">>} THEN None
        ELSE Some(cs[Len(cs)])

\* ------------------------------------------------------------------ inputs
\* characters of the text after the scheme token: two letters of different
\* case, a dot, the separator, and one character outside both classes
RestChars == {"a", "B", ".", "/", "@"}

Rests == UNION {[1..n -> RestChars] : n \in 0..MaxLen}

\* scheme tokens: lower case, mixed case, and one that is not the scheme
Schemes == {<<"s", "u", "i", "s", "3", ":", "/", "/">>,
            <<"S", "u", "I", "s", "3", ":", "/", "/">>,
            <<"s", "3", ":", "/", "/">>}

\* text in front of the scheme token
Prefixes == {<<>>, <<"x">>}

URIs == {p \o s \o r : p \in Prefixes, s \in Schemes, r \in Rests}

\* source files of put: ./d/r.c, f and ..
Files == {<<".", "/", "d", "/", "r", ".", "c">>, <<"f">>, <<".", ".">>}

\* the optional destination of get: absent, or d/f
DestFiles == {None, Some(<<"d", "/", "f">>)}

\* tag arguments of tag add/put
TagLists == {<<>>, <<"k=v", "a=b", "k=v">>}

\* length reported by fs::metadata for a source file
FileSizes == {7}

BlobIds == {"B1", "B2"}

\* SuiS3Cmd, with the TagAction of Tag
Cmd(name, action, uri, file, tags) ==
    [name |-> name, action |-> action, uri |-> uri, file |-> file, tags |-> tags]

\* the commands of each arm of do_command
ListAllCmds == {Cmd("la", "", None, None, <<>>)}

QuitCmds == {Cmd(n, "", None, None, <<>>) : n \in {"quit", "none"}}

ListCmds ==
    {Cmd("ls", "", u, None, <<>>) : u \in {None} \cup {Some(x) : x \in URIs}}

DetailCmds ==
    {Cmd("ll", "", u, None, <<>>) : u \in {None} \cup {Some(x) : x \in URIs}}

CreateBucketCmds == {Cmd("mb", "", Some(u), None, <<>>) : u \in URIs}

DeleteBucketCmds == {Cmd("rb", "", Some(u), None, <<>>) : u \in URIs}

CatCmds == {Cmd("cat", "", Some(u), None, <<>>) : u \in URIs}

DelCmds == {Cmd(n, "", Some(u), None, <<>>) : n \in {"del", "rm"}, u \in URIs}

PutCmds == {Cmd("put", "", Some(u), Some(f), <<>>) : u \in URIs, f \in Files}

GetCmds == {Cmd("get", "", Some(u), f, <<>>) : u \in URIs, f \in DestFiles}

TagAddCmds ==
    {Cmd("tag", a, Some(u), None, t) :
        a \in {"add", "put"}, u \in URIs, t \in TagLists}

TagListCmds ==
    {Cmd("tag", a, Some(u), None, <<>>) : a \in {"list", "ls"}, u \in URIs}

TagDelCmds ==
    {Cmd("tag", a, Some(u), None, <<>>) : a \in {"del", "rm"}, u \in URIs}

\* ------------------------------------------------------------------- state
VARIABLES
    pc,       \* position of the invocation: idle, upload, status, root,
              \* commit, download, catread, done, panicked
    cmd,      \* the command being executed
    caps,     \* Option: the captures of the URI argument
    call,     \* the operations:: function invoked and its arguments
    up,       \* walrus_upload_file's locals: len, blob_id
    meta,     \* Option<BlobMeta>: the result of the upload
    ptb,      \* inputs of the programmable transaction, in order
    blob_id,  \* Option: the blob id returned by get_object_id
    dest,     \* Option: dest_filename of get and cat
    calls,    \* external calls made so far, in order
    printed,  \* lines written to stdout, in order
    ledger,   \* object records held by the metadata contract
    blobs,    \* blob ids held by the blob substrate
    fs,       \* local paths written by downloads
    res,      \* the Result each function has returned so far, in order
    outs,     \* what each external call of `calls` returned, in order
    mpc,      \* position of main: call, read, loop, exited
    interactive, \* main's flag of the same name
    command,  \* main's String of the same name: the line read last
    suis3_cmd, \* matches.suis3_cmd, None being the command named "none"
    nread,    \* number of lines read from the terminal so far
    hist,     \* what the commands that have returned so far did, in order
    wpc,      \* position of setup_for_write: idle, read, write, failed,
              \* panicked
    keyfile,  \* Option: the addresses of the keys in the sui.keystore file
    conffile, \* Option: the client config file, with its active_address
    wallet,   \* Option: the WalletContext retrieve_wallet returned last
    active_address, \* Option: the address setup_for_read returned
    recipient \* Option: the recipient address setup_for_write found

invVars == <<pc, cmd, caps, call, up, meta, ptb, blob_id, dest, calls, printed,
             res, outs>>

mainVars == <<mpc, interactive, command, suis3_cmd, nread, hist>>

walletVars == <<wpc, keyfile, conffile, wallet, active_address, recipient>>

vars == <<pc, cmd, caps, call, up, meta, ptb, blob_id, dest, calls, printed,
          ledger, blobs, fs, res, outs, mpc, interactive, command, suis3_cmd,
          nread, hist, wpc, keyfile, conffile, wallet, active_address,
          recipient>>

NoCmd == Cmd("", "", None, None, <<>>)

\* matches.suis3_cmd == None
NoneCmd == Cmd("none", "", None, None, <<>>)

\* Some(SuiS3Cmd::Quit)
QuitCmd == Cmd("quit", "", None, None, <<>>)

NoCall == [op |-> "", bucket |-> <<>>, object |-> <<>>, tags |-> <<>>]

NoUp == [len |-> 0, blob_id |-> ""]

NoPtb == [inputs |-> <<>>, function |-> "", arguments |-> <<>>, root |-> 0]

\* the state in which do_command is entered
Entered ==
    /\ pc = "idle"
    /\ cmd = NoCmd
    /\ caps = None
    /\ call = NoCall
    /\ up = NoUp
    /\ meta = None
    /\ ptb = NoPtb
    /\ blob_id = None
    /\ dest = None
    /\ calls = <<>>
    /\ printed = <<>>
    /\ res = <<>>
    /\ outs = <<>>

\* setup_for_write not entered, no wallet file looked at
NoWallet ==
    /\ wpc = "idle"
    /\ keyfile = None
    /\ conffile = None
    /\ wallet = None
    /\ active_address = None
    /\ recipient = None

\* one invocation of do_command, with nothing stored yet
Init ==
    /\ Entered
    /\ NoWallet
    /\ ledger = {}
    /\ blobs = {}
    /\ fs = {}
    /\ mpc = "call"
    /\ interactive = FALSE
    /\ command = ""
    /\ suis3_cmd = NoneCmd
    /\ nread = 0
    /\ hist = <<>>

\* ----------------------------------------------------------- stdout lines
\* println!("SUIS3 object format error.")
FormatErrorLine == [kind |-> "format_error", val |-> <<>>]

\* println!("{}", e)
ErrorLine(e) == [kind |-> "error", val |-> <<e>>]

NothingReturned == "Nothing returned. Your command may be incorrect."

\* ----------------------------------------------------------- external calls
LedgerCall(api, fn, inputs) == [api |-> api, fn |-> fn, args |-> inputs]

WalrusCall(api, args) == [api |-> api, fn |-> "", args |-> args]

LedgerApis == {"root_read", "get_coins", "submit"}

WalrusApis == {"store", "blob-status", "read"}

\* ------------------------------------------------- do_command: shared steps
\* the invocation ends after writing the given lines
Exit(c, cp, lines) ==
    /\ cmd' = c
    /\ caps' = cp
    /\ printed' = lines
    /\ pc' = "done"
    /\ UNCHANGED <<call, up, meta, ptb, blob_id, dest, calls, ledger, blobs, fs,
                   res, outs>>

\* an unwrap() on None inside do_command: the thread panics
Panic(c, cp) ==
    /\ cmd' = c
    /\ caps' = cp
    /\ pc' = "panicked"
    /\ UNCHANGED <<call, up, meta, ptb, blob_id, dest, calls, printed, ledger,
                   blobs, fs, res, outs>>

\* do_command calls operations::op(b, o, t); put_object starts with the
\* upload, every other operation with the read of the buckets root
Invoke(c, cp, op, b, o, t, d) ==
    /\ cmd' = c
    /\ caps' = cp
    /\ call' = [op |-> op, bucket |-> b, object |-> o, tags |-> t]
    /\ dest' = d
    /\ pc' = IF op = "put_object" THEN "upload" ELSE "root"
    /\ UNCHANGED <<up, meta, ptb, blob_id, calls, printed, ledger, blobs, fs,
                   res, outs>>

\* ------------------------------------------------------ do_command: the arms
\* Some(SuiS3Cmd::ListAll)
DoListAll(c) ==
    /\ pc = "idle"
    /\ c.name = "la"
    /\ Invoke(c, None, "list_buckets", <<>>, <<>>, <<>>, None)

\* Some(SuiS3Cmd::CreateBucket { bucket })
DoCreateBucket(c) ==
    /\ pc = "idle"
    /\ c.name = "mb"
    /\ LET cp == Captures(c.uri[1])
       IN  IF cp = None
           THEN Exit(c, cp, <<FormatErrorLine>>)
           ELSE Invoke(c, cp, "create_bucket", cp[1].bucket, <<>>, <<>>, None)

\* Some(SuiS3Cmd::DeleteBucket { bucket })
DoDeleteBucket(c) ==
    /\ pc = "idle"
    /\ c.name = "rb"
    /\ LET cp == Captures(c.uri[1])
       IN  IF cp = None
           THEN Exit(c, cp, <<FormatErrorLine>>)
           ELSE Invoke(c, cp, "delete_bucket", cp[1].bucket, <<>>, <<>>, None)

\* a tag add that drops the last tag when it repeats an earlier one
DoTagAddDeduplicated(c) ==
    /\ pc = "idle"
    /\ c.name = "tag"
    /\ c.action \in {"add", "put"}
    /\ LET cp == Captures(c.uri[1])
           n == Len(c.tags)
           t == IF n > 1 /\ \E l \in 1..(n - 1) : c.tags[l] = c.tags[n]
                THEN SubSeq(c.tags, 1, n - 1)
                ELSE c.tags
       IN  IF cp = None
           THEN Exit(c, cp, <<FormatErrorLine>>)
           ELSE IF Len(cp[1].object) = 0
           THEN Invoke(c, cp, "tag_bucket", cp[1].bucket, <<>>, t, None)
           ELSE Invoke(c, cp, "tag_object", cp[1].bucket, cp[1].object,
                       t, None)

\* Tag { action: Add | Put, uri, tags }
DoTagAdd(c) ==
    /\ pc = "idle"
    /\ c.name = "tag"
    /\ c.action \in {"add", "put"}
    /\ LET cp == Captures(c.uri[1])
       IN  IF cp = None
           THEN Exit(c, cp, <<FormatErrorLine>>)
           ELSE IF Len(cp[1].object) = 0
           THEN Invoke(c, cp, "tag_bucket", cp[1].bucket, <<>>, c.tags, None)
           ELSE Invoke(c, cp, "tag_object", cp[1].bucket, cp[1].object,
                       c.tags, None)

\* Tag { action: List | Ls, uri, .. }
DoTagList(c) ==
    /\ pc = "idle"
    /\ c.name = "tag"
    /\ c.action \in {"list", "ls"}
    /\ LET cp == Captures(c.uri[1])
       IN  IF cp = None
           THEN Exit(c, cp, <<FormatErrorLine>>)
           ELSE IF Len(cp[1].object) = 0
           THEN Invoke(c, cp, "list_bucket_tags", cp[1].bucket, <<>>, <<>>,
                       None)
           ELSE Invoke(c, cp, "list_object_tags", cp[1].bucket, cp[1].object,
                       <<>>, None)

\* Tag { action: Del | Rm, uri, .. }
DoTagDel(c) ==
    /\ pc = "idle"
    /\ c.name = "tag"
    /\ c.action \in {"del", "rm"}
    /\ LET cp == Captures(c.uri[1])
       IN  IF cp = None
           THEN Exit(c, cp, <<FormatErrorLine>>)
           ELSE IF Len(cp[1].object) = 0
           THEN Invoke(c, cp, "delete_bucket_tags", cp[1].bucket, <<>>, <<>>,
                       None)
           ELSE Invoke(c, cp, "delete_object_tags", cp[1].bucket,
                       cp[1].object, <<>>, None)

\* put takes the object name from the file only for an empty object segment
UseFileNameIfEmpty(obj) == Len(obj) = 0

\* obj_name.len() == 0 || obj_name == "/"
UseFileName(obj) == Len(obj) = 0 \/ obj = <<"/">>

\* Some(SuiS3Cmd::Put { uri, file })
DoPut(c) ==
    /\ pc = "idle"
    /\ c.name = "put"
    /\ LET cp == Captures(c.uri[1])
       IN  IF cp = None
           THEN Exit(c, cp, <<FormatErrorLine>>)
           ELSE IF UseFileName(cp[1].object)
           THEN LET filename == FileName(c.file[1])
                IN  IF filename = None
                    THEN Panic(c, cp)
                    ELSE Invoke(c, cp, "put_object", cp[1].bucket,
                                <<"/">> \o filename[1], <<>>, None)
           ELSE Invoke(c, cp, "put_object", cp[1].bucket, cp[1].object, <<>>,
                       None)

\* Some(SuiS3Cmd::Get { uri, file })
DoGet(c) ==
    /\ pc = "idle"
    /\ c.name = "get"
    /\ LET cp == Captures(c.uri[1])
       IN  IF cp = None
           THEN Exit(c, cp, <<FormatErrorLine>>)
           ELSE IF Len(cp[1].object) = 0
           THEN Exit(c, cp, <<FormatErrorLine>>)
           ELSE IF c.file = None
           THEN LET filename == FileName(cp[1].object)
                IN  IF filename = None
                    THEN Panic(c, cp)
                    ELSE Invoke(c, cp, "get_object_id", cp[1].bucket,
                                cp[1].object, <<>>, filename)
           ELSE Invoke(c, cp, "get_object_id", cp[1].bucket, cp[1].object,
                       <<>>, c.file)

\* env::temp_dir() + "suis3_tmp"
TmpPath == <<"t", "m", "p">>

\* cat that resolves the root handle before it looks at the object segment
DoCatLateCheck(c) ==
    /\ pc = "idle"
    /\ c.name = "cat"
    /\ LET cp == Captures(c.uri[1])
       IN  IF cp = None
           THEN Exit(c, cp, <<FormatErrorLine>>)
           ELSE IF Len(cp[1].object) = 0
           THEN /\ cmd' = c
                /\ caps' = cp
                /\ calls' = Append(calls, LedgerCall("root_read", "", <<>>))
                /\ printed' = <<FormatErrorLine>>
                /\ pc' = "done"
                /\ outs' = Append(outs, [success |-> TRUE, version |-> 1])
                /\ UNCHANGED <<call, up, meta, ptb, blob_id, dest, ledger,
                               blobs, fs, res>>
           ELSE Invoke(c, cp, "get_object_id", cp[1].bucket, cp[1].object,
                       <<>>, Some(TmpPath))

\* Some(SuiS3Cmd::Cat { uri })
DoCat(c) ==
    /\ pc = "idle"
    /\ c.name = "cat"
    /\ LET cp == Captures(c.uri[1])
       IN  IF cp = None
           THEN Exit(c, cp, <<FormatErrorLine>>)
           ELSE IF Len(cp[1].object) = 0
           THEN Exit(c, cp, <<FormatErrorLine>>)
           ELSE Invoke(c, cp, "get_object_id", cp[1].bucket, cp[1].object,
                       <<>>, Some(TmpPath))

\* del that deletes the bucket when the URI names no object
DoDelBucketFallback(c) ==
    /\ pc = "idle"
    /\ c.name \in {"del", "rm"}
    /\ LET cp == Captures(c.uri[1])
       IN  IF cp = None
           THEN Exit(c, cp, <<FormatErrorLine>>)
           ELSE IF Len(cp[1].object) = 0
           THEN Invoke(c, cp, "delete_bucket", cp[1].bucket, <<>>, <<>>, None)
           ELSE Invoke(c, cp, "delete_object", cp[1].bucket, cp[1].object,
                       <<>>, None)

\* Some(SuiS3Cmd::Del { uri }) | Some(SuiS3Cmd::Rm { uri })
DoDel(c) ==
    /\ pc = "idle"
    /\ c.name \in {"del", "rm"}
    /\ LET cp == Captures(c.uri[1])
       IN  IF cp = None
           THEN Exit(c, cp, <<FormatErrorLine>>)
           ELSE IF Len(cp[1].object) = 0
           THEN Exit(c, cp, <<FormatErrorLine>>)
           ELSE Invoke(c, cp, "delete_object", cp[1].bucket, cp[1].object,
                       <<>>, None)

\* Some(SuiS3Cmd::List { uri })
DoList(c) ==
    /\ pc = "idle"
    /\ c.name = "ls"
    /\ IF c.uri = None
       THEN Invoke(c, None, "list_buckets", <<>>, <<>>, <<>>, None)
       ELSE LET cp == Captures(c.uri[1])
            IN  IF cp = None
                THEN Exit(c, cp, <<FormatErrorLine>>)
                ELSE IF Len(cp[1].object) # 0
                THEN Exit(c, cp, <<FormatErrorLine>>)
                ELSE Invoke(c, cp, "get_bucket_objects", cp[1].bucket, <<>>,
                            <<>>, None)

\* Some(SuiS3Cmd::Detail { uri })
DoDetail(c) ==
    /\ pc = "idle"
    /\ c.name = "ll"
    /\ IF c.uri = None
       THEN Invoke(c, None, "list_buckets", <<>>, <<>>, <<>>, None)
       ELSE LET cp == Captures(c.uri[1])
            IN  IF cp = None
                THEN Exit(c, cp, <<FormatErrorLine>>)
                ELSE IF Len(cp[1].object) # 0
                THEN Exit(c, cp, <<FormatErrorLine>>)
                ELSE Invoke(c, cp, "get_bucket_objects", cp[1].bucket, <<>>,
                            <<>>, None)

\* a do_command that lists the buckets when it is given no command
DoNothingListsAll(c) ==
    /\ pc = "idle"
    /\ c.name \in {"quit", "none"}
    /\ Invoke(c, None, "list_buckets", <<>>, <<>>, <<>>, None)

\* None | Some(SuiS3Cmd::Quit) => ()
DoNothing(c) ==
    /\ pc = "idle"
    /\ c.name \in {"quit", "none"}
    /\ Exit(c, None, <<>>)

\* -------------------------------------------------------- walrus reports
\* a line "Blob ID: <text>"
IdLine(b) == [key |-> "Blob ID", text |-> b, epoch |-> 0]

\* a line "End epoch: <n>"; epoch -1 stands for text that parse::<u64>() rejects
EpochLine(n) == [key |-> "End epoch", text |-> "", epoch |-> n]

\* a line with any other prefix
OtherLine == [key |-> "Other", text |-> "", epoch |-> 0]

\* the loop of walrus_upload_file over the lines of the store report
RECURSIVE ScanStore(_, _, _)
ScanStore(lines, i, acc) ==
    IF i > Len(lines) \/ acc.panicked THEN acc
    ELSE IF lines[i].key = "Blob ID"
    THEN ScanStore(lines, i + 1, [acc EXCEPT !.blob_id = lines[i].text])
    ELSE IF lines[i].key = "End epoch"
    THEN IF lines[i].epoch < 0
         THEN [acc EXCEPT !.panicked = TRUE]
         ELSE ScanStore(lines, i + 1, [acc EXCEPT !.end_epoch = lines[i].epoch])
    ELSE ScanStore(lines, i + 1, acc)

\* the loop of walrus_blob_status over the lines of the status report
RECURSIVE ScanStatus(_, _, _)
ScanStatus(lines, i, acc) ==
    IF i > Len(lines) \/ acc.panicked THEN acc
    ELSE IF lines[i].key = "End epoch"
    THEN IF lines[i].epoch < 0
         THEN [acc EXCEPT !.panicked = TRUE]
         ELSE ScanStatus(lines, i + 1, [acc EXCEPT !.end_epoch = lines[i].epoch])
    ELSE ScanStatus(lines, i + 1, acc)

\* let mut blob_id = ""; let mut end_epoch = 0;
ScanInit == [blob_id |-> "", end_epoch |-> 0, panicked |-> FALSE]

\* a loop over the store report that stops at the line with the end epoch
ParseStoreUntilEpoch(lines) ==
    LET ends == {k \in 1..Len(lines) : lines[k].key = "End epoch"}
        stop == IF ends = {} THEN Len(lines)
                ELSE CHOOSE k \in ends : \A l \in ends : k <= l
    IN  ScanStore(SubSeq(lines, 1, stop), 1, ScanInit)

\* for part in console_output.split("\n") { .. } of walrus_upload_file
ParseStore(lines) == ScanStore(lines, 1, ScanInit)

\* a status that takes the epoch it scanned, found or not
StatusMissingNever(p) == FALSE

\* if end_epoch == 0 { bail!("end epoch not found") }
StatusMissing(p) == p.end_epoch = 0

\* reports of `walrus store` for a blob stored under id b
StoreReports(b) ==
    {<<IdLine(b), EpochLine(5)>>,
     <<EpochLine(5), OtherLine, IdLine(b)>>,
     <<IdLine(b)>>,
     <<EpochLine(5)>>,
     <<>>,
     <<IdLine(b), EpochLine(-1)>>}

\* outcomes of `walrus store`: a non-success exit, or a report on stdout
StoreResults ==
    {[success |-> FALSE, stored |-> "", report |-> <<>>]}
    \cup UNION {{[success |-> TRUE, stored |-> b, report |-> r] :
                    r \in StoreReports(b)} : b \in BlobIds}

\* outcomes of `walrus blob-status`
StatusResults ==
    {[success |-> FALSE, report |-> <<>>],
     [success |-> TRUE, report |-> <<EpochLine(7)>>],
     [success |-> TRUE, report |-> <<OtherLine>>],
     [success |-> TRUE, report |-> <<EpochLine(-1)>>]}

\* a BlobMeta that is created with a tag and a last-write time
BlobMetaTouched(len, b, e) ==
    [size |-> len, walrus_blob_id |-> b, walrus_epoch_till |-> e,
     tags |-> <<"k=v">>, last_write_ts |-> 1]

\* BlobMeta { size, walrus_blob_id, walrus_epoch_till, tags, last_write_ts }
BlobMeta(len, b, e) ==
    [size |-> len, walrus_blob_id |-> b, walrus_epoch_till |-> e,
     tags |-> <<>>, last_write_ts |-> 0]

\* the Result a function returned
Ret(fn, ok, e) == [fn |-> fn, ok |-> ok, e |-> e]

\* --------------------------------------------- put_object: walrus_upload_file
\* an upload error that put_object drops instead of returning
UploadFailedIgnored(e) ==
    /\ res' = Append(res, Ret("walrus_upload_file", FALSE, e))
    /\ meta' = Some(BlobMeta(0, "", 0))
    /\ printed' = printed
    /\ pc' = "root"

\* walrus_upload_file(filename)? : put_object returns the upload's error and
\* do_command prints it
UploadFailed(e) ==
    /\ res' = Append(Append(res, Ret("walrus_upload_file", FALSE, e)),
                     Ret("put_object", FALSE, e))
    /\ meta' = meta
    /\ printed' = Append(printed, ErrorLine(e))
    /\ pc' = "done"

\* walrus_upload_file returns Ok(BlobMeta)
UploadDone(len, b, e) ==
    /\ res' = Append(res, Ret("walrus_upload_file", TRUE, ""))
    /\ meta' = Some(BlobMeta(len, b, e))
    /\ printed' = printed
    /\ pc' = "root"

\* an upload that asks for the status whenever the report gave no end epoch
NeedsStatusWithoutId(p) == p.end_epoch = 0

\* if end_epoch == 0 && blob_id.len() > 0
NeedsStatus(p) == p.end_epoch = 0 /\ p.blob_id # ""

\* an upload that gives up only when both the id and the end epoch are missing
IncompleteBoth(p) == p.end_epoch = 0 /\ p.blob_id = ""

\* if end_epoch == 0 || blob_id.len() == 0 { bail!(..) }
Incomplete(p) == p.end_epoch = 0 \/ p.blob_id = ""

\* walrus_upload_file up to the end of the store report, `walrus store`
\* answering with one of the given results
WalrusStoreFrom(results) ==
    /\ pc = "upload"
    /\ \/ \* fs::metadata(filename)? fails
          /\ UploadFailed("io")
          /\ UNCHANGED <<up, calls, blobs, outs>>
       \/ \E len \in FileSizes, r \in results :
             /\ calls' = Append(calls, WalrusCall("store", <<cmd.file[1]>>))
             /\ outs' = Append(outs, r)
             /\ blobs' = IF r.success THEN blobs \cup {r.stored} ELSE blobs
             /\ IF ~r.success
                THEN UploadFailed("store stderr") /\ up' = up
                ELSE LET p == ParseStore(r.report)
                     IN  IF p.panicked
                         THEN /\ pc' = "panicked"
                              /\ UNCHANGED <<up, meta, printed, res>>
                         ELSE IF NeedsStatus(p)
                         THEN /\ up' = [len |-> len, blob_id |-> p.blob_id]
                              /\ pc' = "status"
                              /\ UNCHANGED <<meta, printed, res>>
                         ELSE IF Incomplete(p)
                         THEN /\ UploadFailed(
                                  "no blob id found or incorrect end epoch")
                              /\ up' = up
                         ELSE /\ UploadDone(len, p.blob_id, p.end_epoch)
                              /\ up' = up
    /\ UNCHANGED <<cmd, caps, call, ptb, blob_id, dest, ledger, fs>>

WalrusStore == WalrusStoreFrom(StoreResults)

\* walrus_blob_status(blob_id)? inside walrus_upload_file, `walrus
\* blob-status` answering with one of the given results
WalrusBlobStatusFrom(results) ==
    /\ pc = "status"
    /\ \E r \in results :
          /\ calls' = Append(calls, WalrusCall("blob-status", <<up.blob_id>>))
          /\ outs' = Append(outs, r)
          /\ IF ~r.success
             THEN UploadFailed("blob-status stderr")
             ELSE LET p == ScanStatus(r.report, 1, ScanInit)
                  IN  IF p.panicked
                      THEN pc' = "panicked" /\ UNCHANGED <<meta, printed, res>>
                      ELSE IF StatusMissing(p)
                      THEN UploadFailed("end epoch not found")
                      ELSE UploadDone(up.len, up.blob_id, p.end_epoch)
    /\ UNCHANGED <<cmd, caps, call, up, ptb, blob_id, dest, ledger, blobs, fs>>

WalrusBlobStatus == WalrusBlobStatusFrom(StatusResults)

\* --------------------------------------------- metadata transaction builder
\* CallArg::Object(ObjectArg::ImmOrOwnedObject(..)) of the buckets root
RootArg == [kind |-> "root", v |-> <<>>]

\* CallArg::Object(ObjectArg::SharedObject { id: 0x6, .. })
ClockArg == [kind |-> "clock", v |-> <<>>]

\* CallArg::Pure(bcs::to_bytes(&x))
Pure(x) == [kind |-> "pure", v |-> <<x>>]

\* move calls in which the tag listings name the functions that delete tags
MoveFunctionTagsMixed(op) ==
    CASE op = "create_bucket" -> "create_bucket"
      [] op = "list_buckets" -> "ls_buckets"
      [] op = "delete_bucket" -> "delete_bucket"
      [] op = "tag_bucket" -> "tag_bucket"
      [] op = "list_bucket_tags" -> "delete_bucket_tags"
      [] op = "delete_bucket_tags" -> "delete_bucket_tags"
      [] op = "put_object" -> "create_object"
      [] op = "get_object_id" -> "get_object"
      [] op = "delete_object" -> "delete_object"
      [] op = "tag_object" -> "tag_object"
      [] op = "list_object_tags" -> "delete_object_tags"
      [] op = "delete_object_tags" -> "delete_object_tags"
      [] op = "get_bucket_objects" -> "ls_bucket_objects"

\* Identifier::new(..) of the move call, per operation
MoveFunction(op) ==
    CASE op = "create_bucket" -> "create_bucket"
      [] op = "list_buckets" -> "ls_buckets"
      [] op = "delete_bucket" -> "delete_bucket"
      [] op = "tag_bucket" -> "tag_bucket"
      [] op = "list_bucket_tags" -> "get_bucket_tags"
      [] op = "delete_bucket_tags" -> "delete_bucket_tags"
      [] op = "put_object" -> "create_object"
      [] op = "get_object_id" -> "get_object"
      [] op = "delete_object" -> "delete_object"
      [] op = "tag_object" -> "tag_object"
      [] op = "list_object_tags" -> "get_object_tags"
      [] op = "delete_object_tags" -> "delete_object_tags"
      [] op = "get_bucket_objects" -> "ls_bucket_objects"

\* inputs in which put_object passes an empty blob id
InputsNoBlobId(cl, m) ==
    CASE cl.op = "create_bucket" ->
             <<RootArg, ClockArg, Pure(cl.bucket), Pure("")>>
      [] cl.op = "list_buckets" -> <<RootArg>>
      [] cl.op \in {"delete_bucket", "list_bucket_tags", "delete_bucket_tags",
                    "get_bucket_objects"} ->
             <<RootArg, Pure(cl.bucket)>>
      [] cl.op = "tag_bucket" -> <<RootArg, Pure(cl.bucket), Pure(cl.tags)>>
      [] cl.op = "put_object" ->
             <<RootArg, ClockArg, Pure(cl.bucket), Pure(cl.object),
               Pure(m[1].size), Pure(""),
               Pure(m[1].walrus_epoch_till), Pure(<<>>)>>
      [] cl.op \in {"get_object_id", "delete_object", "list_object_tags",
                    "delete_object_tags"} ->
             <<RootArg, Pure(cl.bucket), Pure(cl.object)>>
      [] cl.op = "tag_object" ->
             <<RootArg, Pure(cl.bucket), Pure(cl.object), Pure(cl.tags)>>

\* the ptb.input(..) calls of each operation, in order
Inputs(cl, m) ==
    CASE cl.op = "create_bucket" ->
             <<RootArg, ClockArg, Pure(cl.bucket), Pure("")>>
      [] cl.op = "list_buckets" -> <<RootArg>>
      [] cl.op \in {"delete_bucket", "list_bucket_tags", "delete_bucket_tags",
                    "get_bucket_objects"} ->
             <<RootArg, Pure(cl.bucket)>>
      [] cl.op = "tag_bucket" -> <<RootArg, Pure(cl.bucket), Pure(cl.tags)>>
      [] cl.op = "put_object" ->
             <<RootArg, ClockArg, Pure(cl.bucket), Pure(cl.object),
               Pure(m[1].size), Pure(m[1].walrus_blob_id),
               Pure(m[1].walrus_epoch_till), Pure(<<>>)>>
      [] cl.op \in {"get_object_id", "delete_object", "list_object_tags",
                    "delete_object_tags"} ->
             <<RootArg, Pure(cl.bucket), Pure(cl.object)>>
      [] cl.op = "tag_object" ->
             <<RootArg, Pure(cl.bucket), Pure(cl.object), Pure(cl.tags)>>

\* a move call of put_object that passes the object name before the bucket
ArgumentsSwapped(op) ==
    CASE op = "list_buckets" -> <<0>>
      [] op \in {"delete_bucket", "list_bucket_tags", "delete_bucket_tags",
                 "get_bucket_objects"} -> <<0, 1>>
      [] op \in {"tag_bucket", "get_object_id", "delete_object",
                 "list_object_tags", "delete_object_tags"} -> <<0, 1, 2>>
      [] op \in {"create_bucket", "tag_object"} -> <<0, 1, 2, 3>>
      [] op = "put_object" -> <<0, 1, 3, 2, 4, 5, 6, 7>>

\* arguments: vec![Argument::Input(0), ..] of each operation
Arguments(op) ==
    CASE op = "list_buckets" -> <<0>>
      [] op \in {"delete_bucket", "list_bucket_tags", "delete_bucket_tags",
                 "get_bucket_objects"} -> <<0, 1>>
      [] op \in {"tag_bucket", "get_object_id", "delete_object",
                 "list_object_tags", "delete_object_tags"} -> <<0, 1, 2>>
      [] op \in {"create_bucket", "tag_object"} -> <<0, 1, 2, 3>>
      [] op = "put_object" -> <<0, 1, 2, 3, 4, 5, 6, 7>>

\* operations whose result is decoded from the first emitted event
ReadOps == {"list_buckets", "list_bucket_tags", "list_object_tags",
            "get_object_id", "get_bucket_objects"}

\* an operation that builds its transaction from a root reference it kept,
\* without reading the root object
RootReadKept(versions) ==
    /\ pc = "root"
    /\ calls' = calls
    /\ outs' = outs
    /\ ptb' = [inputs |-> Inputs(call, meta),
               function |-> MoveFunction(call.op),
               arguments |-> Arguments(call.op),
               root |-> 0]
    /\ pc' = "commit"
    /\ UNCHANGED <<cmd, caps, call, up, meta, blob_id, dest, printed, ledger,
                   blobs, fs, res>>

\* sui_client.read_api().get_object_with_options(BUCKETS_ROOT, ..).await
\* .unwrap().data.unwrap(), then the inputs and the move call are built
\* `versions` are the versions the root object can have when it is read; the
\* reference (object_id, version, digest) of the object read is input 0 of
\* the transaction, kept in ptb.root
RootReadFrom(versions) ==
    /\ pc = "root"
    /\ calls' = Append(calls, LedgerCall("root_read", "", <<>>))
    /\ \E ok \in BOOLEAN, v \in versions :
          /\ outs' = Append(outs, [success |-> ok, version |-> v])
          /\ IF ok
             THEN /\ ptb' = [inputs |-> Inputs(call, meta),
                             function |-> MoveFunction(call.op),
                             arguments |-> Arguments(call.op),
                             root |-> v]
                  /\ pc' = "commit"
             ELSE /\ ptb' = ptb
                  /\ pc' = "panicked"
    /\ UNCHANGED <<cmd, caps, call, up, meta, blob_id, dest, printed, ledger,
                   blobs, fs, res>>

\* one invocation: the root object has the version it has
RootRead == RootReadFrom({1})

\* parsed_json of an emitted event: whether serde_json decodes it into the
\* operation's result type, the walrus_blob_id of a BlobMeta, the entries of a
\* list result
Payloads ==
    {[wellformed |-> FALSE, walrus_blob_id |-> "", items |-> <<>>]}
    \cup {[wellformed |-> TRUE, walrus_blob_id |-> b, items |-> i] :
             b \in BlobIds, i \in {<<>>, <<"i1", "i2">>}}

\* events a transaction can emit after its first one
LaterPayloads ==
    {[wellformed |-> FALSE, walrus_blob_id |-> "", items |-> <<>>],
     [wellformed |-> TRUE, walrus_blob_id |-> "B2", items |-> <<"i1", "i2">>]}

\* transaction_response.events.data
EventLists ==
    {<<>>} \cup {<<e>> : e \in Payloads}
    \cup {<<e, l>> : e \in Payloads, l \in LaterPayloads}

\* outcomes of commit_transaction: an error before the transaction is sent
\* (setup_for_write, gas price, signing), an error of
\* execute_transaction_block, or the response with its events
CommitResults ==
    {[kind |-> "setup_err", e |-> "get_reference_gas_price error",
      events |-> <<>>],
     [kind |-> "exec_err", e |-> "execute_transaction_block error",
      events |-> <<>>]}
    \cup {[kind |-> "ok", e |-> "", events |-> ev] : ev \in EventLists}

\* ----------------------------------------------------- metadata contract
\* BucketRecord {name, tags}
BucketRecord(b, t) ==
    [kind |-> "bucket", bucket |-> b, object |-> <<>>, blob_id |-> "",
     tags |-> t]

\* ObjectRecord {uri, tags, blob_id}, one per (bucket, object-path)
ObjectRecord(b, o, id, t) ==
    [kind |-> "object", bucket |-> b, object |-> o, blob_id |-> id, tags |-> t]

\* the elements of a set in one fixed order
RECURSIVE SetToSeq(_)
SetToSeq(S) ==
    IF S = {} THEN <<>>
    ELSE LET x == CHOOSE y \in S : TRUE IN <<x>> \o SetToSeq(S \ {x})

\* the payload of an event the contract emits
Event(id, items) == [wellformed |-> TRUE, walrus_blob_id |-> id, items |-> items]

\* the contract function fn executed on the records l with the inputs in:
\* the records afterwards and the events emitted. A function that finds no
\* record to work on changes nothing and emits nothing.
Contract(l, fn, in) ==
    LET Arg(k) == in[k].v[1]
        Bkt(b) == {r \in l : r.kind = "bucket" /\ r.bucket = b}
        Obj(b, o) ==
            {r \in l : r.kind = "object" /\ r.bucket = b /\ r.object = o}
        Out(l2, ev) == [ledger |-> l2, events |-> ev]
        Listing(R) ==
            IF R = {} THEN <<>> ELSE <<Event("", (CHOOSE r \in R : TRUE).tags)>>
    IN  CASE fn = "create_bucket" ->
                 IF Bkt(Arg(3)) = {}
                 THEN Out(l \cup {BucketRecord(Arg(3), <<>>)}, <<>>)
                 ELSE Out(l, <<>>)
          [] fn = "ls_buckets" ->
                 Out(l, <<Event("", SetToSeq({r.bucket : r \in
                                       {x \in l : x.kind = "bucket"}}))>>)
          [] fn = "delete_bucket" -> Out(l \ Bkt(Arg(2)), <<>>)
          [] fn = "tag_bucket" ->
                 Out((l \ Bkt(Arg(2)))
                     \cup {BucketRecord(r.bucket, r.tags \o Arg(3)) :
                              r \in Bkt(Arg(2))}, <<>>)
          [] fn = "get_bucket_tags" -> Out(l, Listing(Bkt(Arg(2))))
          [] fn = "delete_bucket_tags" ->
                 Out((l \ Bkt(Arg(2)))
                     \cup {BucketRecord(r.bucket, <<>>) : r \in Bkt(Arg(2))},
                     <<>>)
          [] fn = "ls_bucket_objects" ->
                 Out(l, IF Bkt(Arg(2)) = {} THEN <<>>
                        ELSE <<Event("", SetToSeq({r.object : r \in
                                  {x \in l : /\ x.kind = "object"
                                             /\ x.bucket = Arg(2)}}))>>)
          [] fn = "create_object" ->
                 Out((l \ Obj(Arg(3), Arg(4)))
                     \cup {ObjectRecord(Arg(3), Arg(4), Arg(6), <<>>)}, <<>>)
          [] fn = "get_object" ->
                 Out(l, IF Obj(Arg(2), Arg(3)) = {} THEN <<>>
                        ELSE <<Event((CHOOSE r \in Obj(Arg(2), Arg(3)) :
                                         TRUE).blob_id, <<>>)>>)
          [] fn = "delete_object" -> Out(l \ Obj(Arg(2), Arg(3)), <<>>)
          [] fn = "tag_object" ->
                 Out((l \ Obj(Arg(2), Arg(3)))
                     \cup {ObjectRecord(r.bucket, r.object, r.blob_id,
                                        r.tags \o Arg(4)) :
                              r \in Obj(Arg(2), Arg(3))}, <<>>)
          [] fn = "get_object_tags" -> Out(l, Listing(Obj(Arg(2), Arg(3))))
          [] fn = "delete_object_tags" ->
                 Out((l \ Obj(Arg(2), Arg(3)))
                     \cup {ObjectRecord(r.bucket, r.object, r.blob_id, <<>>) :
                              r \in Obj(Arg(2), Arg(3))}, <<>>)

\* an operation that submits its transaction again when the execution failed
OpFailedRetry(e) ==
    IF e = "execute_transaction_block error" /\ Len(calls) < 6
    THEN /\ res' = res
         /\ printed' = printed
         /\ blob_id' = blob_id
         /\ pc' = "commit"
    ELSE /\ res' = Append(res, Ret(call.op, FALSE, e))
         /\ printed' = Append(printed, ErrorLine(e))
         /\ blob_id' = blob_id
         /\ pc' = "done"

\* an operation returns Err(e) and do_command prints it
OpFailed(e) ==
    /\ res' = Append(res, Ret(call.op, FALSE, e))
    /\ printed' = Append(printed, ErrorLine(e))
    /\ blob_id' = blob_id
    /\ pc' = "done"

\* the lines do_command prints for an Ok result of a list operation
ListingLines(op, items) ==
    LET rows == [k \in 1..Len(items) |-> [kind |-> "row", val |-> <<items[k]>>]]
    IN  IF op \in {"list_buckets", "get_bucket_objects"}
        THEN <<[kind |-> "header", val |-> <<>>]>> \o rows
        ELSE rows

\* a lookup whose result is lost before the download
LookupDoneDropped(id) ==
    /\ res' = Append(res, Ret("get_object_id", TRUE, id))
    /\ printed' = printed
    /\ blob_id' = Some("")
    /\ pc' = "download"

\* get_object_id returns Ok(ret.walrus_blob_id); do_command goes on to the
\* download with it
LookupDone(id) ==
    /\ res' = Append(res, Ret("get_object_id", TRUE, id))
    /\ printed' = printed
    /\ blob_id' = Some(id)
    /\ pc' = "download"

\* a decoder that takes the event emitted last
DecodedEventLast(ev) == ev[Len(ev)]

\* v[0]: the event whose parsed_json is decoded
DecodedEvent(ev) == ev[1]

\* a read operation that takes a response without events for an empty result
FirstEventOrEmpty(ev) ==
    IF Len(ev) <= 0
    THEN [ok |-> TRUE, e |-> "",
          payload |-> [wellformed |-> TRUE, walrus_blob_id |-> "",
                       items |-> <<>>]]
    ELSE IF ~ev[1].wellformed
    THEN [ok |-> FALSE, e |-> "decode error", payload |-> ev[1]]
    ELSE [ok |-> TRUE, e |-> "", payload |-> ev[1]]

\* if v.len() <= 0 { return Err(anyhow!("Nothing returned. ...")); }
\* let ret: T = serde_json::from_value(v[0].parsed_json.clone())?;
FirstEvent(ev) ==
    IF Len(ev) <= 0
    THEN [ok |-> FALSE, e |-> NothingReturned,
          payload |-> [wellformed |-> FALSE, walrus_blob_id |-> "",
                       items |-> <<>>]]
    ELSE IF ~DecodedEvent(ev).wellformed
    THEN [ok |-> FALSE, e |-> "decode error", payload |-> DecodedEvent(ev)]
    ELSE [ok |-> TRUE, e |-> "", payload |-> DecodedEvent(ev)]

\* c.balance < 5_000_000 is what fetch_coin skips
GasCoinMin == 5000000

\* a SUI coin of the sender
Coin(id, balance) == [id |-> id, balance |-> balance]

\* what get_coins_stream(sender, SUI) can yield: no coin, one coin below the
\* minimum, a coin below the minimum and then one that has it
CoinLists ==
    {<<>>,
     <<Coin("c1", GasCoinMin - 1)>>,
     <<Coin("c1", GasCoinMin - 1), Coin("c2", GasCoinMin)>>}

\* a fetch_coin that takes the first coin of the stream
FetchCoinFirst(coins) ==
    IF coins = <<>> THEN None ELSE Some(coins[1])

\* coins_stream.skip_while(|c| c.balance < 5_000_000).next()
FetchCoin(coins) ==
    LET enough == {k \in 1..Len(coins) : coins[k].balance >= GasCoinMin}
    IN  IF enough = {} THEN None
        ELSE Some(coins[CHOOSE k \in enough : \A l \in enough : k <= l])

\* TransactionData::new_programmable(sender, vec![coin.object_ref()], pt, ..)
\* given to execute_transaction_block
SubmitCall(fn, inputs, gas) ==
    [api |-> "submit", fn |-> fn, args |-> inputs, gas |-> gas]

\* commit_transaction(builder).await answering with one of the given results,
\* and the rest of the operation, up to what do_command prints for its result:
\* setup_for_write fetches the gas coin and bails without one; then the gas
\* price and the signature, which can fail; then the execution
CommitTransactionFrom(results) ==
    /\ pc = "commit"
    /\ \E coins \in CoinLists, r \in results :
        LET coin == FetchCoin(coins)
            fetched == Append(calls, LedgerCall("get_coins", "", <<>>))
            stream == Append(outs, [coins |-> coins])
        IN
          /\ calls' = IF coin = None \/ r.kind = "setup_err" THEN fetched
                      ELSE Append(fetched, SubmitCall(ptb.function, ptb.inputs,
                                                      coin[1]))
          /\ outs' = IF coin = None \/ r.kind = "setup_err" THEN stream
                     ELSE Append(stream, r)
          /\ ledger' = IF coin # None /\ r.kind = "ok"
                       THEN Contract(ledger, ptb.function, ptb.inputs).ledger
                       ELSE ledger
          /\ IF coin = None
             THEN OpFailed("Cannot get coin with sufficient fund")
             ELSE IF r.kind # "ok"
             THEN OpFailed(r.e)
             ELSE IF call.op \notin ReadOps
             THEN /\ res' = Append(res, Ret(call.op, TRUE, ""))
                  /\ printed' =
                        IF call.op = "put_object"
                        THEN Append(printed,
                                    [kind |-> "blob_id",
                                     val |-> <<meta[1].walrus_blob_id>>])
                        ELSE printed
                  /\ blob_id' = blob_id
                  /\ pc' = "done"
             ELSE LET ret == FirstEvent(r.events)
                  IN  IF ~ret.ok
                      THEN OpFailed(ret.e)
                      ELSE IF call.op = "get_object_id"
                      THEN LookupDone(ret.payload.walrus_blob_id)
                      ELSE /\ res' = Append(res, Ret(call.op, TRUE, ""))
                           /\ printed' =
                                 printed \o ListingLines(call.op,
                                                         ret.payload.items)
                           /\ blob_id' = blob_id
                           /\ pc' = "done"
    /\ UNCHANGED <<cmd, caps, call, up, meta, ptb, dest, blobs, fs>>

CommitTransaction == CommitTransactionFrom(CommitResults)

\* what `walrus read` leaves on stderr when it exits with non-success
ReadStderr == "read stderr"

\* a download that takes any exit of `walrus read` for a success
WalrusDownloadFileUnchecked ==
    /\ pc = "download"
    /\ calls' = Append(calls, WalrusCall("read", <<blob_id[1], dest[1]>>))
    /\ \E ok \in BOOLEAN :
          /\ outs' = Append(outs, [success |-> ok,
                                   stderr |-> IF ok THEN "" ELSE ReadStderr])
          /\ res' = Append(res, Ret("walrus_download_file", TRUE, ""))
          /\ fs' = IF ok THEN fs \cup {dest[1]} ELSE fs
          /\ IF cmd.name = "get"
             THEN /\ printed' = Append(printed, [kind |-> "saved_as",
                                                 val |-> dest])
                  /\ pc' = "done"
             ELSE /\ printed' = printed
                  /\ pc' = "catread"
    /\ UNCHANGED <<cmd, caps, call, up, meta, ptb, blob_id, dest, ledger, blobs>>

\* walrus::walrus_download_file(&blob_id, &dest_filename) and what get prints:
\* bail!("{}", stderr) when the exit status is not success, Ok(()) otherwise
WalrusDownloadFile ==
    /\ pc = "download"
    /\ calls' = Append(calls, WalrusCall("read", <<blob_id[1], dest[1]>>))
    /\ \E ok \in BOOLEAN :
          /\ outs' = Append(outs, [success |-> ok,
                                   stderr |-> IF ok THEN "" ELSE ReadStderr])
          /\ IF ~ok
             THEN /\ res' = Append(res, Ret("walrus_download_file", FALSE,
                                            ReadStderr))
                  /\ printed' = Append(printed, ErrorLine(ReadStderr))
                  /\ fs' = fs
                  /\ pc' = "done"
             ELSE /\ res' = Append(res, Ret("walrus_download_file", TRUE, ""))
                  /\ fs' = fs \cup {dest[1]}
                  /\ IF cmd.name = "get"
                     THEN /\ printed' = Append(printed, [kind |-> "saved_as",
                                                         val |-> dest])
                          /\ pc' = "done"
                     ELSE /\ printed' = printed
                          /\ pc' = "catread"
    /\ UNCHANGED <<cmd, caps, call, up, meta, ptb, blob_id, dest, ledger, blobs>>

\* a cat that removes the temporary file only when it could read it
CatReadKeepUnread ==
    /\ pc = "catread"
    /\ \E readable \in BOOLEAN :
          /\ printed' = IF readable
                        THEN Append(printed, [kind |-> "content", val |-> <<>>])
                        ELSE printed
          /\ fs' = IF readable THEN fs \ {dest[1]} ELSE fs
    /\ pc' = "done"
    /\ UNCHANGED <<cmd, caps, call, up, meta, ptb, blob_id, dest, calls, ledger,
                   blobs, res, outs>>

\* cat: if let Ok(content) = fs::read_to_string(dest_filename) { println! }
\* let _ = fs::remove_file(dest_filename);
CatRead ==
    /\ pc = "catread"
    /\ \E readable \in BOOLEAN :
          printed' = IF readable
                     THEN Append(printed, [kind |-> "content", val |-> <<>>])
                     ELSE printed
    /\ fs' = fs \ {dest[1]}
    /\ pc' = "done"
    /\ UNCHANGED <<cmd, caps, call, up, meta, ptb, blob_id, dest, calls, ledger,
                   blobs, res, outs>>

\* ------------------------------------------------------------ specification
Next ==
    \/ pc = "idle" /\ UNCHANGED <<mainVars, walletVars>>
       /\ \E c \in ListAllCmds : DoListAll(c)
    \/ pc = "idle" /\ UNCHANGED <<mainVars, walletVars>>
       /\ \E c \in CreateBucketCmds : DoCreateBucket(c)
    \/ pc = "idle" /\ UNCHANGED <<mainVars, walletVars>>
       /\ \E c \in DeleteBucketCmds : DoDeleteBucket(c)
    \/ pc = "idle" /\ UNCHANGED <<mainVars, walletVars>>
       /\ \E c \in TagAddCmds : DoTagAdd(c)
    \/ pc = "idle" /\ UNCHANGED <<mainVars, walletVars>>
       /\ \E c \in TagListCmds : DoTagList(c)
    \/ pc = "idle" /\ UNCHANGED <<mainVars, walletVars>>
       /\ \E c \in TagDelCmds : DoTagDel(c)
    \/ pc = "idle" /\ UNCHANGED <<mainVars, walletVars>>
       /\ \E c \in PutCmds : DoPut(c)
    \/ pc = "idle" /\ UNCHANGED <<mainVars, walletVars>>
       /\ \E c \in GetCmds : DoGet(c)
    \/ pc = "idle" /\ UNCHANGED <<mainVars, walletVars>>
       /\ \E c \in CatCmds : DoCat(c)
    \/ pc = "idle" /\ UNCHANGED <<mainVars, walletVars>>
       /\ \E c \in DelCmds : DoDel(c)
    \/ pc = "idle" /\ UNCHANGED <<mainVars, walletVars>>
       /\ \E c \in ListCmds : DoList(c)
    \/ pc = "idle" /\ UNCHANGED <<mainVars, walletVars>>
       /\ \E c \in DetailCmds : DoDetail(c)
    \/ pc = "idle" /\ UNCHANGED <<mainVars, walletVars>>
       /\ \E c \in QuitCmds : DoNothing(c)
    \/ WalrusStore /\ UNCHANGED <<mainVars, walletVars>>
    \/ WalrusBlobStatus /\ UNCHANGED <<mainVars, walletVars>>
    \/ RootRead /\ UNCHANGED <<mainVars, walletVars>>
    \/ CommitTransaction /\ UNCHANGED <<mainVars, walletVars>>
    \/ WalrusDownloadFile /\ UNCHANGED <<mainVars, walletVars>>
    \/ CatRead /\ UNCHANGED <<mainVars, walletVars>>

Spec == Init /\ [][Next]_vars

\* --------------------------------- specification of walrus_upload_file alone
\* longest report, in lines
MaxReport == 3

\* the sequences over S of length n at most
SeqsUpTo(S, n) == UNION {[1..k -> S] : k \in 0..n}

\* lines of a store report: an id, an empty id, end epochs 5 and 0, an end
\* epoch that does not parse, another line
StoreLines ==
    {IdLine("B1"), IdLine(""), EpochLine(5), EpochLine(0), EpochLine(-1),
     OtherLine}

\* lines of a status report
StatusLines == {EpochLine(7), EpochLine(0), EpochLine(-1), OtherLine}

\* any outcome of `walrus store`
AnyStoreResults ==
    {[success |-> FALSE, stored |-> "", report |-> <<>>]}
    \cup {[success |-> TRUE, stored |-> "B1", report |-> r] :
             r \in SeqsUpTo(StoreLines, MaxReport)}

\* any outcome of `walrus blob-status`
AnyStatusResults ==
    {[success |-> FALSE, report |-> <<>>]}
    \cup {[success |-> TRUE, report |-> r] :
             r \in SeqsUpTo(StatusLines, MaxReport)}

\* put suis3://a/B f
UploadCmds ==
    {Cmd("put", "", Some(<<"s", "u", "i", "s", "3", ":", "/", "/", "a", "/",
                           "B">>), Some(<<"f">>), <<>>)}

UploadNext ==
    \/ pc = "idle" /\ UNCHANGED <<mainVars, walletVars>>
       /\ \E c \in UploadCmds : DoPut(c)
    \/ WalrusStoreFrom(AnyStoreResults) /\ UNCHANGED <<mainVars, walletVars>>
    \/ WalrusBlobStatusFrom(AnyStatusResults) /\ UNCHANGED <<mainVars, walletVars>>

UploadSpec == Init /\ [][UploadNext]_vars

\* ------------------------------------------- specification of main's session
\* lines read from the terminal in one session, at most
MaxReads == 2

\* suis3://a and suis3://a/B
BucketUri == <<"s", "u", "i", "s", "3", ":", "/", "/", "a">>

ObjectUri == BucketUri \o <<"/", "B">>

\* the commands typed in a session: one for each arm at least, with a
\* malformed URI, a bucket-only put of a file without a name, and tag
\* commands at both scopes
SessionCmds ==
    {Cmd("la", "", None, None, <<>>),
     Cmd("ls", "", Some(BucketUri), None, <<>>),
     Cmd("ll", "", None, None, <<>>),
     Cmd("mb", "", Some(BucketUri), None, <<>>),
     Cmd("mb", "", Some(<<"s", "3", ":", "/", "/", "a">>), None, <<>>),
     Cmd("rb", "", Some(BucketUri), None, <<>>),
     Cmd("put", "", Some(ObjectUri), Some(<<"f">>), <<>>),
     Cmd("put", "", Some(BucketUri), Some(<<".", ".">>), <<>>),
     Cmd("get", "", Some(ObjectUri), None, <<>>),
     Cmd("cat", "", Some(ObjectUri), None, <<>>),
     Cmd("del", "", Some(ObjectUri), None, <<>>),
     Cmd("tag", "add", Some(ObjectUri), None, <<"k=v">>),
     Cmd("tag", "ls", Some(ObjectUri), None, <<>>),
     Cmd("tag", "del", Some(ObjectUri), None, <<>>),
     Cmd("tag", "add", Some(BucketUri), None, <<"k=v">>),
     Cmd("tag", "ls", Some(BucketUri), None, <<>>)}

\* a line typed at the prompt: the class of its text, and what
\* SuiS3Cmd::try_parse_from(..).ok() makes of its words. The Quit command is
\* named "quit/exit", so the lines quit and exit parse to no command.
TypedLines ==
    {<<"cmd", c>> : c \in SessionCmds}
    \cup {<<"quit", NoneCmd>>, <<"exit", NoneCmd>>, <<"quit/exit", QuitCmd>>,
          <<"help", NoneCmd>>, <<"?", NoneCmd>>, <<"", NoneCmd>>}

\* the records the contract may hold when the session starts
InitialLedgers ==
    {{},
     {BucketRecord(<<"a">>, <<"t=1">>),
      ObjectRecord(<<"a">>, <<"/", "B">>, "B1", <<"t=2">>)}}

\* outcomes of `walrus store` and `walrus blob-status` in a session
SessionStoreResults ==
    {[success |-> FALSE, stored |-> "", report |-> <<>>]}
    \cup {[success |-> TRUE, stored |-> b,
           report |-> <<IdLine(b), EpochLine(5)>>] : b \in BlobIds}
    \cup {[success |-> TRUE, stored |-> "B2", report |-> <<IdLine("B2")>>]}

SessionStatusResults ==
    {[success |-> FALSE, report |-> <<>>],
     [success |-> TRUE, report |-> <<EpochLine(7)>>]}

\* outcomes of commit_transaction against the contract: an error before or
\* at the execution, or the response with the events the contract emits
ContractResults ==
    {[kind |-> "setup_err", e |-> "get_reference_gas_price error",
      events |-> <<>>],
     [kind |-> "exec_err", e |-> "execute_transaction_block error",
      events |-> <<>>],
     [kind |-> "ok", e |-> "",
      events |-> Contract(ledger, ptb.function, ptb.inputs).events]}

\* a main that stays interactive when a command is given on the command line
SessionInitInteractive ==
    /\ Entered
    /\ NoWallet
    /\ ledger \in InitialLedgers
    /\ blobs = {}
    /\ fs = {}
    /\ mpc = "loop"
    /\ command = ""
    /\ nread = 0
    /\ hist = <<>>
    /\ \/ interactive = TRUE /\ suis3_cmd = NoneCmd
       \/ interactive = TRUE /\ suis3_cmd \in SessionCmds \cup {QuitCmd}

SessionInit ==
    /\ Entered
    /\ NoWallet
    /\ ledger \in InitialLedgers
    /\ blobs = {}
    /\ fs = {}
    /\ mpc = "loop"
    /\ command = ""
    /\ nread = 0
    /\ hist = <<>>
    /\ \/ interactive = TRUE /\ suis3_cmd = NoneCmd
       \/ interactive = FALSE /\ suis3_cmd \in SessionCmds \cup {QuitCmd}

\* the state in which do_command is entered, as the next state
Enter ==
    /\ pc' = "idle"
    /\ cmd' = NoCmd
    /\ caps' = None
    /\ call' = NoCall
    /\ up' = NoUp
    /\ meta' = None
    /\ ptb' = NoPtb
    /\ blob_id' = None
    /\ dest' = None
    /\ calls' = <<>>
    /\ printed' = <<>>
    /\ res' = <<>>
    /\ outs' = <<>>

\* while matches.suis3_cmd != Some(SuiS3Cmd::Quit) { if command.starts_with(
\* "exit") || command.starts_with("quit") { interactive = false } else {
\* do_command(..) } if !interactive { break } ..
MainLoop ==
    /\ mpc = "loop"
    /\ IF suis3_cmd = QuitCmd
       THEN mpc' = "exited" /\ interactive' = interactive
       ELSE IF command \in {"quit", "exit", "quit/exit"}
       THEN mpc' = "exited" /\ interactive' = FALSE
       ELSE mpc' = "call" /\ interactive' = interactive
    /\ UNCHANGED <<invVars, ledger, blobs, fs, command, suis3_cmd, nread, hist>>
    /\ UNCHANGED walletVars

\* matches.suis3_cmd.take(): do_command is entered with the command
Taken ==
    /\ mpc = "call"
    /\ suis3_cmd' = NoneCmd
    /\ UNCHANGED <<mpc, interactive, command, nread, hist>>
    /\ UNCHANGED walletVars

\* the Ok result of a function of the invocation
OkOf(fn) == \E i \in 1..Len(res) : res[i].fn = fn /\ res[i].ok

\* what the invocation that returns has done: the command, the operation and
\* its target, whether it succeeded, the blob id the upload returned (put) or
\* the one passed to `walrus read` (get, cat), and the lines printed
Summary ==
    [cmd |-> cmd, call |-> call,
     ok |-> IF cmd.name \in {"get", "cat"} THEN OkOf("walrus_download_file")
            ELSE call.op # "" /\ OkOf(call.op),
     blob |-> IF cmd.name = "put"
              THEN IF meta = None THEN "" ELSE meta[1].walrus_blob_id
              ELSE IF \E i \in 1..Len(calls) : calls[i].api = "read"
              THEN calls[CHOOSE i \in 1..Len(calls) :
                            calls[i].api = "read"].args[1]
              ELSE "",
     printed |-> printed]

\* a main that goes on to read the next line while do_command is running
MainReturnEarly ==
    /\ mpc = "call"
    /\ pc \notin {"idle", "panicked"}
    /\ hist' = Append(hist, Summary)
    /\ mpc' = IF interactive THEN "read" ELSE "exited"
    /\ UNCHANGED <<invVars, ledger, blobs, fs, interactive, command, suis3_cmd,
                   nread>>
    /\ UNCHANGED walletVars

\* do_command(..).await returns; if !interactive { break; }
MainReturn ==
    /\ mpc = "call"
    /\ pc = "done"
    /\ hist' = Append(hist, Summary)
    /\ mpc' = IF interactive THEN "read" ELSE "exited"
    /\ Enter
    /\ UNCHANGED <<ledger, blobs, fs, interactive, command, suis3_cmd, nread>>
    /\ UNCHANGED walletVars

\* command = match open("/dev/tty") { Ok(tty) => first line, or "logout" at
\* end of input; Err(e) => "quit" }; matches.suis3_cmd = if command
\* .starts_with("help") { None } else { try_parse_from(..).ok() }
ReadLine ==
    /\ mpc = "read"
    /\ nread < MaxReads
    /\ nread' = nread + 1
    /\ \/ \* the terminal cannot be opened
          command' = "quit" /\ suis3_cmd' = NoneCmd /\ mpc' = "loop"
       \/ \* end of input
          command' = "logout" /\ suis3_cmd' = NoneCmd /\ mpc' = "loop"
       \/ \* l.unwrap() on a line that cannot be read
          mpc' = "panicked" /\ UNCHANGED <<command, suis3_cmd>>
       \/ \E l \in TypedLines :
             command' = l[1] /\ suis3_cmd' = l[2] /\ mpc' = "loop"
    /\ UNCHANGED <<invVars, ledger, blobs, fs, interactive, hist>>
    /\ UNCHANGED walletVars

\* the version of the root object while the current command runs: every
\* command of the session finds a newer version than the one before it
RootVersionNow == Len(hist) + 1

SessionNext ==
    \/ MainLoop
    \/ DoListAll(suis3_cmd) /\ Taken
    \/ DoCreateBucket(suis3_cmd) /\ Taken
    \/ DoDeleteBucket(suis3_cmd) /\ Taken
    \/ DoTagAdd(suis3_cmd) /\ Taken
    \/ DoTagList(suis3_cmd) /\ Taken
    \/ DoTagDel(suis3_cmd) /\ Taken
    \/ DoPut(suis3_cmd) /\ Taken
    \/ DoGet(suis3_cmd) /\ Taken
    \/ DoCat(suis3_cmd) /\ Taken
    \/ DoDel(suis3_cmd) /\ Taken
    \/ DoList(suis3_cmd) /\ Taken
    \/ DoDetail(suis3_cmd) /\ Taken
    \/ DoNothing(suis3_cmd) /\ Taken
    \/ WalrusStoreFrom(SessionStoreResults) /\ UNCHANGED <<mainVars, walletVars>>
    \/ WalrusBlobStatusFrom(SessionStatusResults) /\ UNCHANGED <<mainVars, walletVars>>
    \/ RootReadFrom({RootVersionNow}) /\ UNCHANGED <<mainVars, walletVars>>
    \/ CommitTransactionFrom(ContractResults) /\ UNCHANGED <<mainVars, walletVars>>
    \/ WalrusDownloadFile /\ UNCHANGED <<mainVars, walletVars>>
    \/ CatRead /\ UNCHANGED <<mainVars, walletVars>>
    \/ MainReturn
    \/ ReadLine

SessionSpec == SessionInit /\ [][SessionNext]_vars

\* ------------------------------------- specification of the wallet's setup
\* addresses are numbered; a keystore lists its addresses in ascending order
MaxAddr == 4

AddrPool == 1..MaxAddr

\* keystore.addresses().first()
FirstAddress(keys) == CHOOSE a \in keys : \A b \in keys : a <= b

\* a client config file: its active_address
ClientConfig(active) == [active_address |-> active]

\* a WalletContext: the addresses of its keystore and its config's active
\* address
WalletContext(keys, active) == [addresses |-> keys, active_address |-> active]

\* the step of retrieve_wallet at which a file operation fails; 0 is none
FailPoints == 0..5

\* what retrieve_wallet leaves and returns
Retrieved(ok, kf, cf, w) ==
    [ok |-> ok, keyfile |-> kf, conffile |-> cf, wallet |-> w]

\* retrieve_wallet that does not add the second key
RetrieveWalletOneKey(kf, cf, k1, k2, fail) ==
    LET kf1 == IF kf = None THEN Some({}) ELSE kf
        cf1 == IF cf = None THEN Some(ClientConfig(None)) ELSE cf
        keys0 == kf1[1]
        default_active_address ==
            IF keys0 # {} THEN FirstAddress(keys0) ELSE k1
        keys1 == IF keys0 # {} THEN keys0 ELSE {k1}
        cf2 == Some(ClientConfig(Some(default_active_address)))
    IN  CASE fail = 1 -> Retrieved(FALSE, kf, cf, None)
          [] fail = 2 -> Retrieved(FALSE, kf1, cf, None)
          [] fail = 3 -> Retrieved(FALSE, kf1, cf1, None)
          [] fail = 4 -> Retrieved(FALSE, Some(keys1), cf1, None)
          [] fail = 5 -> Retrieved(FALSE, Some(keys1), cf1, None)
          [] OTHER ->
                Retrieved(TRUE, Some(keys1), cf2,
                          Some(WalletContext(keys1,
                                             Some(default_active_address))))

\* retrieve_wallet on keystore file kf and config file cf, k1 and k2 being the
\* keys it would generate: the keystore file is created empty if missing
\* (fail = 1 stops here), then the config file (2); the keystore and the
\* config are loaded (3); the default active address is the keystore's first
\* address, or a key generated and added (4); a second key is added to a
\* keystore of fewer than two (5); the active address is saved in the config
\* and the wallet is opened on the two files
RetrieveWallet(kf, cf, k1, k2, fail) ==
    LET kf1 == IF kf = None THEN Some({}) ELSE kf
        cf1 == IF cf = None THEN Some(ClientConfig(None)) ELSE cf
        keys0 == kf1[1]
        default_active_address ==
            IF keys0 # {} THEN FirstAddress(keys0) ELSE k1
        keys1 == IF keys0 # {} THEN keys0 ELSE {k1}
        keys2 == IF Cardinality(keys1) < 2 THEN keys1 \cup {k2} ELSE keys1
        cf2 == Some(ClientConfig(Some(default_active_address)))
    IN  CASE fail = 1 -> Retrieved(FALSE, kf, cf, None)
          [] fail = 2 -> Retrieved(FALSE, kf1, cf, None)
          [] fail = 3 -> Retrieved(FALSE, kf1, cf1, None)
          [] fail = 4 -> Retrieved(FALSE, Some(keys1), cf1, None)
          [] fail = 5 -> Retrieved(FALSE, Some(keys2), cf1, None)
          [] OTHER ->
                Retrieved(TRUE, Some(keys2), cf2,
                          Some(WalletContext(keys2,
                                             Some(default_active_address))))

\* the keys of a keystore file, none when it is missing
KeysOf(kf) == IF kf = None THEN {} ELSE kf[1]

\* two keys generated one after the other for keystore file kf: neither is in
\* the keystore, and they differ
FreshKeys(kf) ==
    {<<k1, k2>> \in AddrPool \X AddrPool :
        k1 \notin KeysOf(kf) /\ k2 \notin KeysOf(kf) /\ k1 # k2}

\* setup_for_read: the client is built, the wallet retrieved, its addresses
\* counted and its active address returned
SetupForRead ==
    /\ wpc = "idle"
    /\ \E built \in BOOLEAN, ks \in FreshKeys(keyfile), fail \in FailPoints :
          LET r == RetrieveWallet(keyfile, conffile, ks[1], ks[2], fail)
          IN  IF ~built
              THEN /\ wpc' = "failed"
                   /\ UNCHANGED <<keyfile, conffile, wallet, active_address>>
              ELSE /\ keyfile' = r.keyfile
                   /\ conffile' = r.conffile
                   /\ wallet' = r.wallet
                   /\ IF ~r.ok
                      THEN wpc' = "failed" /\ UNCHANGED active_address
                      ELSE IF ~(Cardinality(r.wallet[1].addresses) >= 2)
                      THEN wpc' = "panicked" /\ UNCHANGED active_address
                      ELSE /\ wpc' = "read"
                           /\ active_address' = r.wallet[1].active_address
    /\ UNCHANGED <<recipient, invVars, mainVars, ledger, blobs, fs>>

\* setup_for_write after its setup_for_read: a coin is fetched, the wallet
\* retrieved again, and the first address other than the active one is the
\* recipient
SetupForWrite ==
    /\ wpc = "read"
    /\ \E coins \in CoinLists, ks \in FreshKeys(keyfile), fail \in FailPoints :
          LET r == RetrieveWallet(keyfile, conffile, ks[1], ks[2], fail)
              addresses ==
                  IF r.ok THEN r.wallet[1].addresses \ {active_address[1]}
                  ELSE {}
          IN  IF FetchCoin(coins) = None
              THEN /\ wpc' = "failed"
                   /\ UNCHANGED <<keyfile, conffile, wallet, recipient>>
              ELSE /\ keyfile' = r.keyfile
                   /\ conffile' = r.conffile
                   /\ wallet' = r.wallet
                   /\ IF ~r.ok
                      THEN wpc' = "failed" /\ UNCHANGED recipient
                      ELSE IF addresses = {}
                      THEN wpc' = "panicked" /\ UNCHANGED recipient
                      ELSE /\ wpc' = "write"
                           /\ recipient' = Some(FirstAddress(addresses))
    /\ UNCHANGED <<active_address, invVars, mainVars, ledger, blobs, fs>>

\* the operation that called the setup returns; the two files stay
SetupReturn ==
    /\ wpc \in {"read", "write", "failed"}
    /\ wpc' = "idle"
    /\ wallet' = None
    /\ active_address' = None
    /\ recipient' = None
    /\ UNCHANGED <<keyfile, conffile, invVars, mainVars, ledger, blobs, fs>>

\* keystore files of MaxAddr - 2 keys at most, so that two more can be
\* generated
KeyFiles ==
    {None} \cup {Some(K) : K \in {S \in SUBSET AddrPool :
                                     Cardinality(S) <= MaxAddr - 2}}

\* config files: any active address, or none
ConfFiles ==
    {None} \cup {Some(ClientConfig(a)) :
                    a \in {None} \cup {Some(x) : x \in AddrPool}}

WalletInit ==
    /\ Entered
    /\ ledger = {}
    /\ blobs = {}
    /\ fs = {}
    /\ mpc = "call"
    /\ interactive = FALSE
    /\ command = ""
    /\ suis3_cmd = NoneCmd
    /\ nread = 0
    /\ hist = <<>>
    /\ wpc = "idle"
    /\ keyfile \in KeyFiles
    /\ conffile \in ConfFiles
    /\ wallet = None
    /\ active_address = None
    /\ recipient = None

WalletNext ==
    \/ SetupForRead
    \/ SetupForWrite
    \/ SetupReturn

WalletSpec == WalletInit /\ [][WalletNext]_vars

\* ================================================================== claims
\* the whole text is suis3://<bucket>[<object-path>]: scheme token first,
\* then one bucket character at least, then object-path characters to the end
InGrammar(s) ==
    /\ Len(s) >= 9
    /\ SchemeAt(s, 1)
    /\ s[9] \in BucketClass
    /\ \A k \in 10..Len(s) : s[k] \in ObjectClass

\* the invocation ended with the format error as its only output and without
\* having called an operation
FormatErrorOutcome ==
    /\ pc = "done"
    /\ Len(printed) = 1
    /\ printed[1].kind = "format_error"
    /\ call.op = ""
    /\ calls = <<>>

\* a path without its trailing separators and trailing "/." pieces
RECURSIVE StripTail(_)
StripTail(p) ==
    IF p = <<>> THEN p
    ELSE IF p[Len(p)] = "/" THEN StripTail(SubSeq(p, 1, Len(p) - 1))
    ELSE IF Len(p) >= 2 /\ p[Len(p)] = "." /\ p[Len(p) - 1] = "/"
    THEN StripTail(SubSeq(p, 1, Len(p) - 2))
    ELSE p

\* the base name of a path: what follows its last separator
BaseName(p) ==
    LET q == StripTail(p)
        slashes == {k \in 1..Len(q) : q[k] = "/"}
        last == IF slashes = {} THEN 0
                ELSE CHOOSE k \in slashes : \A j \in slashes : j <= k
    IN  SubSeq(q, last + 1, Len(q))

\* C1: every command given a URI argument that is not, as a whole, of the
\* form suis3://<bucket>[<object-path>] ends with the format error and
\* invokes no operation.
C1_MalformedUriIsFormatError ==
    (pc # "idle" /\ cmd.uri # None /\ ~InGrammar(cmd.uri[1]))
        => FormatErrorOutcome

\* C2: whenever the parser accepts a URI, the captured bucket is non-empty
\* and made of [A-Za-z0-9._-] only, and the captured object is made of
\* [A-Za-z0-9._/-] and is empty or starts with "/".
C2_CapturesWellFormed ==
    caps # None =>
        /\ Len(caps[1].bucket) >= 1
        /\ \A k \in 1..Len(caps[1].bucket) :
              caps[1].bucket[k] \in Alnum \cup {".", "_", "-"}
        /\ \A k \in 1..Len(caps[1].object) :
              caps[1].object[k] \in Alnum \cup {".", "_", "-", "/"}
        /\ (caps[1].object = <<>> \/ caps[1].object[1] = "/")

\* C2 witness: a URI was accepted with a bucket of two characters and a
\* non-empty object
C2_Witness ==
    /\ caps # None
    /\ Len(caps[1].bucket) >= 2
    /\ Len(caps[1].object) >= 1

\* what each scope-branching command does for the bucket-only URI suis3://b
BucketOnlyBranch ==
    CASE cmd.name = "tag" /\ cmd.action \in {"add", "put"} ->
             call.op = "tag_bucket"
      [] cmd.name = "tag" /\ cmd.action \in {"list", "ls"} ->
             call.op = "list_bucket_tags"
      [] cmd.name = "tag" /\ cmd.action \in {"del", "rm"} ->
             call.op = "delete_bucket_tags"
      [] cmd.name \in {"ls", "ll"} -> call.op = "get_bucket_objects"
      [] cmd.name = "put" ->
             \/ pc = "panicked" /\ calls = <<>>
             \/ /\ call.op = "put_object"
                /\ call.object = <<"/">> \o BaseName(cmd.file[1])
      [] cmd.name \in {"get", "cat", "del", "rm"} -> FormatErrorOutcome
      [] OTHER -> TRUE

\* the table above is what the code does for an empty object segment
EmptyObjectTakesBucketOnlyBranch ==
    (pc # "idle" /\ caps # None /\ caps[1].object = <<>>) => BucketOnlyBranch

\* C3: an object segment that is exactly "/" is treated like an empty one:
\* suis3://b/ takes the branch that suis3://b takes, in every command that
\* branches on scope.
C3_SlashIsBucketOnly ==
    (pc # "idle" /\ caps # None /\ caps[1].object = <<"/">>)
        => BucketOnlyBranch

\* the command is one that works on an object
ObjectLevelCmd == cmd.name \in {"del", "rm", "get", "cat", "tag"}

\* the command was given an accepted URI with an empty object segment
BucketOnlyUri == pc # "idle" /\ caps # None /\ caps[1].object = <<>>

\* C4 as stated: every object-level operation (del/rm, tag add/put, tag
\* del/rm, tag ls/list, get, cat) given a bucket-only URI ends with the
\* format error and invokes no bucket-scope operation.
C4_Original ==
    (ObjectLevelCmd /\ BucketOnlyUri) => FormatErrorOutcome

\* C4 amended: del/rm, get and cat given a bucket-only URI end with the
\* format error and invoke no operation; tag add/put, tag del/rm and tag
\* ls/list given a bucket-only URI invoke tag_bucket, delete_bucket_tags and
\* list_bucket_tags on the captured bucket.
C4_ObjectScopeRequired ==
    (ObjectLevelCmd /\ BucketOnlyUri) =>
        IF cmd.name = "tag"
        THEN /\ call.bucket = caps[1].bucket
             /\ call.op = CASE cmd.action \in {"add", "put"} -> "tag_bucket"
                            [] cmd.action \in {"del", "rm"} ->
                                   "delete_bucket_tags"
                            [] cmd.action \in {"list", "ls"} ->
                                   "list_bucket_tags"
        ELSE FormatErrorOutcome

\* C4 witness: del/rm was given a bucket-only URI and has ended
C4_Witness ==
    /\ cmd.name \in {"del", "rm"}
    /\ BucketOnlyUri
    /\ pc = "done"

\* C5: an invocation that printed the format error has made no ledger call
\* and no blob-substrate call.
C5_FormatErrorBeforeAnyCall ==
    (\E i \in 1..Len(printed) : printed[i].kind = "format_error")
        => calls = <<>>

\* C5 witness: the format error was printed for a URI that the parser
\* accepted (a scope mismatch)
C5_Witness ==
    /\ pc = "done"
    /\ caps # None
    /\ \E i \in 1..Len(printed) : printed[i].kind = "format_error"

\* positions of the external calls made to the ledger gateway
LedgerCallsAt == {i \in 1..Len(calls) : calls[i].api \in LedgerApis}

\* positions of the external calls made to the blob substrate
WalrusCallsAt == {i \in 1..Len(calls) : calls[i].api \in WalrusApis}

\* the function has returned Ok
Returned(fn) == \E i \in 1..Len(res) : res[i].fn = fn /\ res[i].ok

\* the function has returned Err
Failed(fn) == \E i \in 1..Len(res) : res[i].fn = fn /\ ~res[i].ok

\* C6: in a put, no ledger call (root-handle read, submit) is made before the
\* upload has returned successfully, no blob-substrate call of the upload
\* follows a ledger call, and when the upload fails no ledger call is made
\* and put returns the upload's error, which is the one line printed.
C6_UploadBeforeCommit ==
    cmd.name = "put" =>
        /\ LedgerCallsAt # {} =>
              /\ Returned("walrus_upload_file")
              /\ meta # None
              /\ \E i \in WalrusCallsAt : calls[i].api = "store"
        /\ \A i \in LedgerCallsAt : \A j \in WalrusCallsAt : j < i
        /\ Failed("walrus_upload_file") =>
              /\ LedgerCallsAt = {}
              /\ pc = "done"
              /\ \E i \in 1..Len(res) :
                    /\ res[i].fn = "walrus_upload_file"
                    /\ res[Len(res)] = Ret("put_object", FALSE, res[i].e)
                    /\ Len(printed) = 1
                    /\ printed[1].kind = "error"
                    /\ printed[1].val = <<res[i].e>>

\* C6 witness: a put whose upload needed the status query has submitted its
\* create_object transaction
C6_Witness ==
    /\ cmd.name = "put"
    /\ pc = "done"
    /\ \E i \in WalrusCallsAt : calls[i].api = "blob-status"
    /\ \E i \in LedgerCallsAt : calls[i].api = "submit"

\* the metadata part of a put has failed: the upload returned a BlobMeta and
\* the invocation is over without put_object having returned Ok
PutCommitFailed ==
    /\ cmd.name = "put"
    /\ meta # None
    /\ pc \in {"done", "panicked"}
    /\ ~Returned("put_object")

\* C7: when the metadata commit of a put fails after a successful upload, put
\* returns an error that is the only line printed (no blob id), no object
\* record exists in the ledger, the uploaded blob is still in the substrate
\* and no blob-substrate call was made after the upload.
C7_CommitFailureIsReported ==
    PutCommitFailed =>
        /\ pc = "done"
        /\ Failed("put_object")
        /\ Len(printed) = 1
        /\ printed[1].kind = "error"
        /\ ledger = {}
        /\ meta[1].walrus_blob_id \in blobs
        /\ \A i \in LedgerCallsAt : \A j \in WalrusCallsAt : j < i

\* the object name a put has to send: the object segment, or "/" and the base
\* name of the source file when the segment is empty or "/"
PutObjectName ==
    IF caps[1].object \notin {<<>>, <<"/">>}
    THEN caps[1].object
    ELSE <<"/">> \o BaseName(cmd.file[1])

\* C8: the object name in every create_object transaction a put builds or
\* submits is the URI's object segment when that is neither empty nor "/",
\* and "/" followed by the base name of the source file otherwise.
C8_PutObjectName ==
    cmd.name = "put" =>
        /\ ptb.function = "create_object" =>
              ptb.inputs[4] = Pure(PutObjectName)
        /\ \A i \in LedgerCallsAt :
              calls[i].api = "submit" =>
                  /\ calls[i].fn = "create_object"
                  /\ calls[i].args[3] = Pure(caps[1].bucket)
                  /\ calls[i].args[4] = Pure(PutObjectName)

\* C8 witness: a put to a URI whose object segment is "/" has submitted its
\* create_object transaction
C8_Witness ==
    /\ cmd.name = "put"
    /\ caps # None
    /\ caps[1].object = <<"/">>
    /\ \E i \in LedgerCallsAt : calls[i].api = "submit"

\* C9: in a get or cat, the only blob-substrate call is the read; it comes
\* after the get_object transaction was submitted and get_object_id returned
\* Ok, its blob id is the one get_object_id returned, and when the lookup
\* fails or panics no blob-substrate call is made.
C9_LookupBeforeDownload ==
    cmd.name \in {"get", "cat"} =>
        /\ \A i \in WalrusCallsAt :
              /\ calls[i].api = "read"
              /\ \E j \in 1..(i - 1) :
                    calls[j].api = "submit" /\ calls[j].fn = "get_object"
              /\ \E k \in 1..Len(res) :
                    /\ res[k].fn = "get_object_id"
                    /\ res[k].ok
                    /\ calls[i].args[1] = res[k].e
        /\ (Failed("get_object_id") \/ ~Returned("get_object_id"))
              => WalrusCallsAt = {}

\* C9 witness: a cat has downloaded the blob its lookup returned
C9_Witness ==
    /\ cmd.name = "cat"
    /\ Returned("walrus_download_file")
    /\ \E i \in WalrusCallsAt : calls[i].args[1] = "B2"

\* C10: a get of an accepted URI with an object path (longer than the bare
\* separator) has as its destination the caller's file path when one is
\* given and the base name of the object path otherwise.
C10_GetDestination ==
    (cmd.name = "get" /\ pc # "idle" /\ caps # None
        /\ Len(caps[1].object) > 1)
        => dest = IF cmd.file # None THEN cmd.file
                  ELSE Some(BaseName(caps[1].object))

\* the transaction of a read operation was executed and emitted no event
ZeroEvents ==
    /\ call.op \in ReadOps
    /\ \E i \in 1..Len(calls) :
          /\ calls[i].api = "submit"
          /\ outs[i].kind = "ok"
          /\ outs[i].events = <<>>

\* C12: when the transaction of list_buckets, list_bucket_tags,
\* list_object_tags, get_object_id or get_bucket_objects emits zero events,
\* the operation returns the "Nothing returned" error, which is the one line
\* printed; it never returns Ok, and no listing and no download follows.
C12_ZeroEventsIsNothingReturned ==
    ZeroEvents =>
        /\ pc = "done"
        /\ res = <<Ret(call.op, FALSE, NothingReturned)>>
        /\ printed = <<ErrorLine(NothingReturned)>>
        /\ blob_id = None
        /\ \A i \in WalrusCallsAt : calls[i].api # "read"

\* C12 witness: the lookup of a cat was executed and emitted no event
C12_Witness ==
    /\ ZeroEvents
    /\ cmd.name = "cat"
    /\ call.op = "get_object_id"

\* a call to the ledger gateway has failed: the read of the root handle, or
\* the execution of the transaction
LedgerCallFailed ==
    \E i \in LedgerCallsAt :
        \/ calls[i].api = "root_read" /\ ~outs[i].success
        \/ calls[i].api = "submit" /\ outs[i].kind = "exec_err"

\* C13: when a ledger-gateway call of a metadata operation fails, the
\* operation returns one error value, which do_command prints; the invocation
\* does not panic.
C13_LedgerFailureIsReturned ==
    LedgerCallFailed =>
        /\ pc = "done"
        /\ Failed(call.op)
        /\ Len(printed) = 1
        /\ printed[1].kind = "error"

\* the operation-specific inputs of each contract function, as the table of
\* operations lists them after the root handle and the clock
TableInputs ==
    CASE ptb.function = "create_bucket" -> <<Pure(call.bucket), Pure("")>>
      [] ptb.function = "ls_buckets" -> <<>>
      [] ptb.function \in {"delete_bucket", "get_bucket_tags",
                           "delete_bucket_tags", "ls_bucket_objects"} ->
             <<Pure(call.bucket)>>
      [] ptb.function = "tag_bucket" -> <<Pure(call.bucket), Pure(call.tags)>>
      [] ptb.function = "create_object" ->
             <<Pure(call.bucket), Pure(call.object), Pure(meta[1].size),
               Pure(meta[1].walrus_blob_id), Pure(meta[1].walrus_epoch_till),
               Pure(<<>>)>>
      [] ptb.function \in {"get_object", "delete_object", "get_object_tags",
                           "delete_object_tags"} ->
             <<Pure(call.bucket), Pure(call.object)>>
      [] ptb.function = "tag_object" ->
             <<Pure(call.bucket), Pure(call.object), Pure(call.tags)>>

\* C14: the inputs of every built transaction are the root handle, then the
\* clock exactly for create_bucket and create_object, then the operation's
\* own arguments in the table's order; the move call references inputs
\* 0..n-1 in increasing order, none skipped or repeated; the transaction is
\* submitted with these inputs.
C14_InputsInDeclaredOrder ==
    ptb.function # "" =>
        /\ ptb.inputs =
              <<RootArg>>
              \o (IF ptb.function \in {"create_bucket", "create_object"}
                  THEN <<ClockArg>> ELSE <<>>)
              \o TableInputs
        /\ ptb.arguments = [k \in 1..Len(ptb.inputs) |-> k - 1]
        /\ \A i \in LedgerCallsAt :
              calls[i].api = "submit" =>
                  calls[i].fn = ptb.function /\ calls[i].args = ptb.inputs

\* C14 witness: create_object was submitted with its eight inputs
C14_Witness ==
    /\ ptb.function = "create_object"
    /\ Len(ptb.inputs) = 8
    /\ \E i \in LedgerCallsAt : calls[i].api = "submit"

\* positions of the external calls `walrus store` and `walrus blob-status`
StoreAt == {i \in 1..Len(calls) : calls[i].api = "store"}

StatusAt == {i \in 1..Len(calls) : calls[i].api = "blob-status"}

\* walrus_upload_file is over: it returned, or it panicked
UploadOver == cmd.name = "put" /\ pc \notin {"idle", "upload", "status"}

\* some line of the report carries a blob identifier
HasId(r) == \E k \in 1..Len(r) : r[k].key = "Blob ID" /\ r[k].text # ""

\* some line of the report carries a nonzero expiry epoch
HasExpiry(r) == \E k \in 1..Len(r) : r[k].key = "End epoch" /\ r[k].epoch > 0

\* the status fallback was made and its report carries a nonzero expiry epoch
Recovered ==
    \E j \in StatusAt : outs[j].success /\ HasExpiry(outs[j].report)

\* C15: when upload returns Ok, the BlobMeta has a non-empty blob id and an
\* expiry epoch above 0, and there is a BlobMeta only then; a store report
\* with an identifier but no nonzero expiry, the status fallback recovering
\* none, or with a nonzero expiry but no identifier, never ends in Ok.
C15_NoPartialUpload ==
    /\ Returned("walrus_upload_file") =>
          /\ meta # None
          /\ meta[1].walrus_blob_id # ""
          /\ meta[1].walrus_epoch_till > 0
    /\ meta # None => Returned("walrus_upload_file")
    /\ \A i \in StoreAt :
          (outs[i].success /\ UploadOver) =>
              LET r == outs[i].report
              IN  /\ (HasId(r) /\ ~HasExpiry(r) /\ ~Recovered) =>
                        ~Returned("walrus_upload_file")
                  /\ (HasExpiry(r) /\ ~HasId(r)) =>
                        ~Returned("walrus_upload_file")

\* C15 witness: an upload returned Ok with the expiry of the status fallback,
\* the store report having carried an identifier and a zero expiry
C15_Witness ==
    /\ Returned("walrus_upload_file")
    /\ StatusAt # {}
    /\ \E i \in StoreAt :
          \E k \in 1..Len(outs[i].report) :
              outs[i].report[k] = EpochLine(0)

\* the value a report gives for a key is that of its last line with the key
RECURSIVE LastWith(_, _, _)
LastWith(r, key, k) ==
    IF k = 0 THEN 0
    ELSE IF r[k].key = key THEN k
    ELSE LastWith(r, key, k - 1)

ReportId(r) ==
    LET k == LastWith(r, "Blob ID", Len(r)) IN IF k = 0 THEN "" ELSE r[k].text

ReportEpoch(r) ==
    LET k == LastWith(r, "End epoch", Len(r))
    IN  IF k = 0 THEN 0 ELSE r[k].epoch

\* the report has no "End epoch" line, or such lines with epoch 0 only
NoEpoch(r) == \A k \in 1..Len(r) : r[k].key = "End epoch" => r[k].epoch = 0

\* C16: when the store report gives a blob identifier and no expiry epoch
\* (no "End epoch" line, or lines with epoch 0 only), upload makes exactly one
\* blob-status query, for that identifier and right after the store call;
\* when the report gives a nonzero expiry epoch, or no blob
\* identifier, upload makes no blob-status query.
C16_OneStatusFallback ==
    \A i \in StoreAt :
        (outs[i].success /\ UploadOver) =>
            LET r == outs[i].report
            IN  /\ (ReportId(r) # "" /\ NoEpoch(r)) =>
                       /\ Cardinality(StatusAt) = 1
                       /\ \A j \in StatusAt :
                             /\ j = i + 1
                             /\ calls[j].args = <<ReportId(r)>>
                /\ (ReportEpoch(r) > 0 \/ ReportId(r) = "") => StatusAt = {}

\* C16 witness: the one status query was made and the upload returned Ok
C16_Witness ==
    /\ UploadOver
    /\ Cardinality(StatusAt) = 1
    /\ Returned("walrus_upload_file")
    /\ \E i \in StoreAt : ~HasExpiry(outs[i].report)

\* positions of the error lines printed: the format error, or an Err(e)
ErrorLinesAt ==
    {i \in 1..Len(printed) : printed[i].kind \in {"error", "format_error"}}

\* the command has produced its success payload: the downloaded file and its
\* "saved as" line for get, the content for cat, the Ok result of its
\* operation for every other command
Succeeded ==
    CASE cmd.name \in {"quit", "none"} -> TRUE
      [] cmd.name = "get" ->
             /\ Returned("walrus_download_file")
             /\ \E i \in 1..Len(printed) : printed[i].kind = "saved_as"
      [] cmd.name = "cat" ->
             \E i \in 1..Len(printed) : printed[i].kind = "content"
      [] OTHER -> Returned(call.op)

\* C17: every invocation ends, and ends either with its success payload and
\* no error line, or with exactly one error line and no success payload.
C17_OneTerminalOutcome ==
    pc \in {"done", "panicked"} =>
        /\ pc = "done"
        /\ \/ ErrorLinesAt = {} /\ Succeeded
           \/ /\ Cardinality(ErrorLinesAt) = 1
              /\ Len(printed) = 1
              /\ ~Succeeded

\* an invocation that returned to main without a success payload and without
\* an error line: the cat whose downloaded file read_to_string rejects
SilentFailure ==
    /\ pc = "done"
    /\ ErrorLinesAt = {}
    /\ ~Succeeded

\* two returned commands worked on the same (bucket, object)
SameTarget(x, y) ==
    x.call.bucket = y.call.bucket /\ x.call.object = y.call.object

\* C11: when a put of a file to (bucket, object) has succeeded and a later
\* get of the same (bucket, object) succeeds, no put and no delete of that
\* (bucket, object) having been issued in between, the blob the get passes
\* to the download is the one whose id the upload of the put returned (the
\* substrate being content-addressed, the bytes of the file).
C11_RoundTrip ==
    \A i, j \in 1..Len(hist) :
        (/\ i < j
         /\ hist[i].cmd.name = "put"
         /\ hist[i].ok
         /\ hist[j].cmd.name = "get"
         /\ hist[j].ok
         /\ SameTarget(hist[i], hist[j])
         /\ \A k \in (i + 1)..(j - 1) :
               ~(/\ hist[k].cmd.name \in {"put", "del", "rm"}
                 /\ SameTarget(hist[k], hist[i])))
            => /\ hist[i].blob # ""
               /\ hist[j].blob = hist[i].blob

\* C11 witness: a put that replaced the blob of suis3://a/B, then a get of it
C11_Witness ==
    /\ Len(hist) = 3
    /\ ObjectRecord(<<"a">>, <<"/", "B">>, "B2", <<>>) \in ledger
    /\ hist[2].cmd.name = "put"
    /\ hist[2].ok
    /\ hist[2].blob = "B2"
    /\ hist[3].cmd.name = "get"
    /\ hist[3].ok
    /\ <<"B">> \in fs

\* the invocation has met a format error, a ledger error or a blob error
CommandFailed ==
    \/ \E i \in 1..Len(printed) : printed[i].kind = "format_error"
    \/ LedgerCallFailed
    \/ \E i \in WalrusCallsAt : ~outs[i].success
    \/ \E i \in 1..Len(res) : ~res[i].ok

\* C18: in interactive mode an invocation that meets a format error, a
\* ledger error or a blob error does not panic: it returns to main, which
\* goes on to read the next line; an interactive session ends only by a quit
\* or exit line.
C18_FailureKeepsSession ==
    /\ (interactive /\ mpc = "call" /\ CommandFailed) => pc # "panicked"
    /\ (mpc = "exited" /\ nread > 0) =>
          (command \in {"quit", "exit", "quit/exit"} \/ suis3_cmd = QuitCmd)

\* C19: an invocation of do_command exists only while main is inside its
\* call, main reads a line and parses it only with no invocation in flight
\* and none of its calls made, and the n-th line is read after n commands at
\* least have returned with their outcome.
C19_OneCommandInFlight ==
    /\ pc # "idle" => mpc = "call"
    /\ mpc \in {"read", "loop"} => (calls = <<>> /\ printed = <<>>)
    /\ nread <= Len(hist)
    /\ \A i \in 1..Len(hist) : hist[i].cmd # NoCmd

\* C19 witness: the second typed command is in flight, after the first one
\* has made its calls and returned
C19_Witness ==
    /\ nread = 2
    /\ Len(hist) = 2
    /\ hist[2].call.op # ""
    /\ pc = "commit"

\* the operations that list tags
TagListOps == {"list_bucket_tags", "list_object_tags"}

\* two tag listings of the same target, both Ok, with read operations and
\* format errors only in between, printed the same tags
SameTagsListed ==
    \A i, j \in 1..Len(hist) :
        (/\ i < j
         /\ hist[i].call.op \in TagListOps
         /\ hist[j].call = hist[i].call
         /\ hist[i].ok
         /\ hist[j].ok
         /\ \A k \in (i + 1)..(j - 1) : hist[k].call.op \in ReadOps \cup {""})
            => hist[j].printed = hist[i].printed

SubmitsAt == {i \in LedgerCallsAt : calls[i].api = "submit"}

\* C21: an invocation of a metadata operation submits one transaction at
\* most; the transaction calls the function of the operation; no ledger call
\* follows the submission, and when the submission fails the operation
\* returns the error without submitting again.
C21_OneSubmitNoRetry ==
    /\ Cardinality(SubmitsAt) <= 1
    /\ \A i \in SubmitsAt :
          /\ calls[i].fn = MoveFunction(call.op)
          /\ calls[i].fn = ptb.function
          /\ \A j \in LedgerCallsAt : j <= i
          /\ outs[i].kind = "exec_err" =>
                /\ i = Len(calls)
                /\ pc = "done"
                /\ res = <<Ret(call.op, FALSE, outs[i].e)>>
                       \/ (call.op = "put_object" /\ Failed("put_object"))

\* C21 witness: the one transaction of a delete_bucket failed at execution
C21_Witness ==
    /\ call.op = "delete_bucket"
    /\ Cardinality(SubmitsAt) = 1
    /\ \E i \in SubmitsAt : outs[i].kind = "exec_err"
    /\ pc = "done"

\* positions of the successful reads of the root object
RootReadsAt == {i \in LedgerCallsAt : calls[i].api = "root_read" /\ outs[i].success}

\* C22: in a session, a transaction is submitted only after the root object
\* was read in the same invocation, and the root reference of the transaction
\* is the one that read returned, which is the version the root object has
\* during this command.
C22_FreshRootRead ==
    /\ ptb # NoPtb =>
          \E j \in RootReadsAt : ptb.root = outs[j].version
    /\ \A i \in SubmitsAt :
          \E j \in RootReadsAt :
             /\ j < i
             /\ ptb.root = outs[j].version
             /\ ptb.root = RootVersionNow

\* C22 witness: the second command typed in a session submits its
\* transaction, after the first one had submitted its own
C22_Witness ==
    /\ Len(hist) = 2
    /\ hist[2].call.op # ""
    /\ hist[2].ok
    /\ SubmitsAt # {}
    /\ ptb.root = 3

\* the values of the rows printed
RowsPrinted ==
    LET rows == SelectSeq(printed, LAMBDA l : l.kind = "row")
    IN  [k \in 1..Len(rows) |-> rows[k].val[1]]

\* C23: when the transaction of a read operation emits events, the result
\* comes from the first one alone: if its payload is malformed the operation
\* returns an error other than "Nothing returned", which is the one line
\* printed, and nothing is looked up or listed; if it is well formed the blob
\* id looked up, or the rows listed, are those of the first event, whatever
\* a later event holds.
C23_FirstEventDecoded ==
    \A i \in SubmitsAt :
        (call.op \in ReadOps /\ outs[i].kind = "ok" /\ outs[i].events # <<>>) =>
            LET first == outs[i].events[1]
            IN  IF ~first.wellformed
                THEN /\ pc = "done"
                     /\ blob_id = None
                     /\ \E j \in 1..Len(res) :
                           /\ res = <<Ret(call.op, FALSE, res[j].e)>>
                           /\ res[j].e # NothingReturned
                           /\ printed = <<ErrorLine(res[j].e)>>
                ELSE /\ res[1].fn = call.op
                     /\ res[1].ok
                     /\ IF call.op = "get_object_id"
                        THEN blob_id = Some(first.walrus_blob_id)
                        ELSE /\ pc = "done"
                             /\ RowsPrinted = first.items

\* C23 witness: a listing met a malformed first event followed by a well
\* formed one
C23_Witness ==
    /\ call.op = "get_bucket_objects"
    /\ \E i \in SubmitsAt :
          /\ outs[i].kind = "ok"
          /\ Len(outs[i].events) = 2
          /\ ~outs[i].events[1].wellformed
          /\ outs[i].events[2].wellformed

\* the report has a line with the key "End epoch:"
HasEpochLine(r) == \E k \in 1..Len(r) : r[k].key = "End epoch"

\* C24: when `walrus blob-status` exits with non-success, or its report has no
\* "End epoch:" line, the status query returns an error, which ends the
\* upload without a BlobMeta; when the query returns an epoch, the substrate
\* had exited with success, the epoch is above 0 and it is the value of an
\* "End epoch:" line of the report.
C24_StatusEpoch ==
    \A i \in StatusAt :
        /\ (~outs[i].success \/ ~HasEpochLine(outs[i].report)) =>
              /\ pc = "done"
              /\ meta = None
              /\ \E e \in {"blob-status stderr", "end epoch not found"} :
                    /\ res = <<Ret("walrus_upload_file", FALSE, e),
                               Ret("put_object", FALSE, e)>>
                    /\ (e = "blob-status stderr") = ~outs[i].success
        /\ meta # None =>
              /\ outs[i].success
              /\ meta[1].walrus_epoch_till > 0
              /\ \E k \in 1..Len(outs[i].report) :
                    outs[i].report[k] = EpochLine(meta[1].walrus_epoch_till)

\* C24 witness: a status report of several lines gave the epoch
C24_Witness ==
    /\ meta # None
    /\ \E i \in StatusAt :
          /\ Len(outs[i].report) = 3
          /\ outs[i].report[1] = EpochLine(0)
          /\ outs[i].report[2] = EpochLine(7)
          /\ outs[i].report[3] = OtherLine

\* each of the keys "Blob ID:" and "End epoch:" is on one line at most
KeysOnce(r) ==
    \A k, l \in 1..Len(r) :
        (r[k].key = r[l].key /\ r[k].key \in {"Blob ID", "End epoch"}) => k = l

\* the reports with the lines of r in another order
Permuted(r) ==
    {[k \in 1..Len(r) |-> r[f[k]]] :
        f \in {g \in [1..Len(r) -> 1..Len(r)] :
                  \A k, l \in 1..Len(r) : g[k] = g[l] => k = l}}

\* what the loop over a store report gives: a panic, or an id and an epoch
Scanned(r) ==
    LET p == ParseStore(r)
    IN  IF p.panicked THEN [panicked |-> TRUE, blob_id |-> "", end_epoch |-> 0]
        ELSE p

\* C26: for a store report with each of the keys "Blob ID:" and "End epoch:"
\* on one line at most, every order of its lines gives the upload the same
\* blob id and expiry epoch, or the same panic, and these are the ones the
\* upload goes on with: the BlobMeta returned, the identifier queried, the
\* failure.
C26_LineOrderIrrelevant ==
    \A i \in StoreAt :
        (outs[i].success /\ KeysOnce(outs[i].report)) =>
            \A q \in Permuted(outs[i].report) :
                LET o == Scanned(q)
                IN  /\ o = Scanned(outs[i].report)
                    /\ o.panicked <=> (pc = "panicked" /\ StatusAt = {})
                    /\ \A j \in StatusAt :
                          /\ calls[j].args = <<o.blob_id>>
                          /\ o.end_epoch = 0
                    /\ (meta # None /\ StatusAt = {}) =>
                          /\ meta[1].walrus_blob_id = o.blob_id
                          /\ meta[1].walrus_epoch_till = o.end_epoch
                    /\ (Failed("walrus_upload_file") /\ StatusAt = {}) =>
                          (o.blob_id = "" /\ ~o.panicked)

\* C26 witness: an upload returned from a report whose end epoch comes
\* before the blob id
C26_Witness ==
    /\ meta # None
    /\ \E i \in StoreAt :
          outs[i].report = <<EpochLine(5), OtherLine, IdLine("B1")>>

\* positions of the calls of `walrus read`
ReadsAt == {i \in 1..Len(calls) : calls[i].api = "read"}

\* the lines of a kind that were printed
PrintedOf(kind) == {k \in 1..Len(printed) : printed[k].kind = kind}

\* C25: when `walrus read` exits with non-success the download returns an
\* error with the text of its stderr, which is the line printed, and neither
\* "Saved as" nor any content is printed; the download returns Ok only when
\* `walrus read` exited with success; "Saved as" is printed by get alone,
\* after the download returned Ok, and names the file given to `walrus read`.
C25_DownloadOutcome ==
    /\ \A i \in ReadsAt :
          /\ ~outs[i].success =>
                /\ pc = "done"
                /\ res[Len(res)] = Ret("walrus_download_file", FALSE,
                                       outs[i].stderr)
                /\ printed = <<ErrorLine(outs[i].stderr)>>
          /\ Returned("walrus_download_file") => outs[i].success
          /\ Returned("walrus_download_file") \/ Failed("walrus_download_file")
    /\ \A k \in PrintedOf("saved_as") :
          /\ cmd.name = "get"
          /\ Returned("walrus_download_file")
          /\ \E i \in ReadsAt :
                /\ outs[i].success
                /\ printed[k].val = <<calls[i].args[2]>>

\* C25 witness: the download of a get failed
C25_Witness ==
    /\ cmd.name = "get"
    /\ \E i \in ReadsAt : ~outs[i].success
    /\ pc = "done"

\* C27: a cat whose download succeeded has the temporary file in place when
\* it comes to read it, and has removed it when it returns, whether or not it
\* could read and print the content.
C27_TempFileRemoved ==
    (cmd.name = "cat" /\ Returned("walrus_download_file")) =>
        /\ pc \in {"catread", "done"}
        /\ dest = Some(TmpPath)
        /\ pc = "catread" => TmpPath \in fs
        /\ pc = "done" => TmpPath \notin fs

\* C27 witness: a cat downloaded the blob, could not read the file, and
\* returned
C27_Witness ==
    /\ cmd.name = "cat"
    /\ Returned("walrus_download_file")
    /\ pc = "done"
    /\ PrintedOf("content") = {}

\* the command is one that works on a bucket
BucketLevelCmd == cmd.name \in {"mb", "rb", "ls", "ll"}

\* the command was given an accepted URI that names an object: its object
\* segment is neither empty nor the lone "/"
ObjectUriGiven ==
    pc # "idle" /\ caps # None /\ caps[1].object \notin {<<>>, <<"/">>}

\* C28: mb, rb, ls and ll given a URI whose object segment is not empty end
\* with the format error as their only output, having invoked no operation
\* and made no ledger call.
C28_BucketScopeRequired ==
    (BucketLevelCmd /\ ObjectUriGiven) => FormatErrorOutcome

\* C29: tag add/put hands the tags of the command line to tag_bucket or
\* tag_object as they are, and the operation encodes that very sequence, same
\* order and repetitions, as the last input of its transaction, after the
\* root and the names; the transaction submitted carries it.
C29_TagsUnmodified ==
    (cmd.name = "tag" /\ cmd.action \in {"add", "put"} /\ call.op # "") =>
        /\ call.op \in {"tag_bucket", "tag_object"}
        /\ call.tags = cmd.tags
        /\ ptb # NoPtb =>
              /\ Len(ptb.inputs) = IF call.op = "tag_bucket" THEN 3 ELSE 4
              /\ ptb.inputs[Len(ptb.inputs)] = Pure(cmd.tags)
        /\ \A i \in SubmitsAt :
              calls[i].args[Len(calls[i].args)] = Pure(cmd.tags)

\* C29 witness: a tag add with a repeated tag was submitted for an object
C29_Witness ==
    /\ cmd.name = "tag"
    /\ cmd.action = "add"
    /\ call.op = "tag_object"
    /\ cmd.tags = <<"k=v", "a=b", "k=v">>
    /\ SubmitsAt # {}

\* the text of s after its first scheme token
AfterScheme(s) ==
    LET k == CHOOSE k \in 1..Len(s) :
                 SchemeAt(s, k) /\ \A l \in 1..(k - 1) : ~SchemeAt(s, l)
    IN  SubSeq(s, k + 8, Len(s))

\* operations that take an object path
ObjectOps == {"get_object_id", "delete_object", "tag_object",
              "list_object_tags", "delete_object_tags", "put_object"}

\* C30: for an accepted URI the captured bucket followed by the captured
\* object is the whole text after the scheme token, and the operation is
\* invoked with the captured bucket and, when it takes an object path that the
\* URI gives, with the captured object, character for character.
C30_NoNormalization ==
    (pc # "idle" /\ caps # None) =>
        /\ caps[1].bucket \o caps[1].object = AfterScheme(cmd.uri[1])
        /\ call.op # "" => call.bucket = caps[1].bucket
        /\ (call.op \in ObjectOps /\ caps[1].object \notin {<<>>, <<"/">>}) =>
              call.object = caps[1].object

\* the expiry epoch the upload of this invocation got: the one of the store
\* report, or the one of the status report when the store report gave none
UploadedEpoch ==
    LET i == CHOOSE i \in StoreAt : TRUE
    IN  IF ReportEpoch(outs[i].report) # 0 THEN ReportEpoch(outs[i].report)
        ELSE LET j == CHOOSE j \in StatusAt : TRUE
             IN  ReportEpoch(outs[j].report)

\* C31: in a put, the BlobMeta of the upload has the blob id and the expiry
\* epoch the substrate reported in this invocation, a size of the source file,
\* no tags and last-write 0; inputs 4 to 7 of every create_object transaction
\* built or submitted are its size, blob id and expiry epoch and an empty tag
\* list; the blob id printed, after put_object returned Ok, is its blob id.
C31_PutCommitsUploadMeta ==
    cmd.name = "put" =>
        /\ meta # None =>
              /\ StoreAt # {}
              /\ \A i \in StoreAt :
                    meta[1].walrus_blob_id = ReportId(outs[i].report)
              /\ meta[1].walrus_epoch_till = UploadedEpoch
              /\ meta[1].size \in FileSizes
              /\ meta[1].tags = <<>>
              /\ meta[1].last_write_ts = 0
        /\ ptb # NoPtb =>
              /\ meta # None
              /\ SubSeq(ptb.inputs, 5, 8) =
                    <<Pure(meta[1].size), Pure(meta[1].walrus_blob_id),
                      Pure(meta[1].walrus_epoch_till), Pure(<<>>)>>
        /\ \A i \in SubmitsAt :
              /\ calls[i].fn = "create_object"
              /\ SubSeq(calls[i].args, 5, 8) =
                    <<Pure(meta[1].size), Pure(meta[1].walrus_blob_id),
                      Pure(meta[1].walrus_epoch_till), Pure(<<>>)>>
        /\ \A k \in PrintedOf("blob_id") :
              /\ Returned("put_object")
              /\ printed[k].val = <<meta[1].walrus_blob_id>>
        /\ Returned("put_object") => PrintedOf("blob_id") # {}

\* C31 witness: a put whose expiry epoch came from the status query printed
\* its blob id
C31_Witness ==
    /\ cmd.name = "put"
    /\ StatusAt # {}
    /\ PrintedOf("blob_id") # {}

\* positions of the reads of the sender's coins
CoinsAt == {i \in LedgerCallsAt : calls[i].api = "get_coins"}

\* the coins of the list with a balance of 5,000,000 MIST at least
Funded(coins) ==
    {coins[k] : k \in {l \in 1..Len(coins) : coins[l].balance >= 5000000}}

\* C32: every transaction submitted pays its gas with a coin that the read of
\* the sender's coins, made before it in the same invocation, returned with a
\* balance of 5,000,000 MIST at least; when that read returns no such coin,
\* the operation returns "Cannot get coin with sufficient fund", which is the
\* line printed, nothing is submitted and the ledger is left as it was.
C32_GasCoinFunded ==
    /\ \A i \in SubmitsAt :
          \E j \in CoinsAt : j < i /\ calls[i].gas \in Funded(outs[j].coins)
    /\ \A j \in CoinsAt :
          Funded(outs[j].coins) = {} =>
              /\ SubmitsAt = {}
              /\ pc = "done"
              /\ res[Len(res)] =
                    Ret(call.op, FALSE, "Cannot get coin with sufficient fund")
              /\ printed[Len(printed)] =
                    ErrorLine("Cannot get coin with sufficient fund")
              /\ ledger = {}

\* C32 witness: the sender's only coin is one MIST short, and the operation
\* has failed
C32_Witness ==
    /\ call.op = "create_bucket"
    /\ pc = "done"
    /\ \E j \in CoinsAt : outs[j].coins = <<Coin("c1", 4999999)>>

\* the line read begins with "quit" or "exit" (typed, or put in place of the
\* line when the terminal cannot be opened)
QuitLineRead == nread > 0 /\ command \in {"quit", "exit", "quit/exit"}

\* the read met the end of the input
EndOfInputRead == nread > 0 /\ command = "logout"

\* C33: in an interactive session, once a line beginning with "quit" or
\* "exit" is read, or the terminal cannot be opened, or the input is at its
\* end, no command is entered and no further line is read: main is at its
\* loop test or has left the loop.
C33_SessionEnds ==
    (QuitLineRead \/ EndOfInputRead) =>
        /\ mpc \in {"loop", "exited"}
        /\ pc = "idle"
        /\ calls = <<>>

\* the process was started with a command on its command line: the first
\* command main holds is not the None of a bare start
StartedWithCommand ==
    IF hist # <<>> THEN hist[1].cmd.name # "none"
    ELSE suis3_cmd # NoneCmd \/ cmd.name \notin {"", "none"}

\* C34: a process started with a command on its command line never reads a
\* line; it enters do_command once at most, and when that invocation has
\* returned, with or without an error, main has left its loop; main leaves its
\* loop only after that one invocation, or at once for the quit command.
C34_OneCommandThenExit ==
    StartedWithCommand =>
        /\ nread = 0
        /\ mpc # "read"
        /\ Len(hist) <= 1
        /\ Len(hist) = 1 => (mpc = "exited" /\ pc = "idle")
        /\ mpc = "exited" => (Len(hist) = 1 \/ suis3_cmd = QuitCmd)

\* C34 witness: the command of the command line failed, and the process has
\* exited
C34_Witness ==
    /\ StartedWithCommand
    /\ Len(hist) = 1
    /\ hist[1].call.op = "create_bucket"
    /\ ~hist[1].ok
    /\ mpc = "exited"

\* the line read is the empty line, the help line, or words that are no
\* command (and that do not begin with "quit" or "exit")
NoCommandLineRead == nread > 0 /\ command \in {"", "help", "?"}

\* C35: in an interactive session, while the line read last is the empty
\* line, the help line or words that are no command, no ledger call and no
\* blob call is made, no operation is invoked and nothing is printed by
\* do_command, main does not leave its loop, and no step changes the ledger,
\* the blobs or the files.
C35_NoCommandLineIsNoOp ==
    /\ [](NoCommandLineRead =>
            /\ calls = <<>>
            /\ call.op = ""
            /\ printed = <<>>
            /\ pc \in {"idle", "done"}
            /\ mpc # "exited"
            /\ interactive)
    /\ [][NoCommandLineRead' =>
            (ledger' = ledger /\ blobs' = blobs /\ fs' = fs)]_vars

\* C35 witness: after a command that wrote to the ledger, the empty line was
\* read and passed, and main is about to read the next line
C35_Witness ==
    /\ command = ""
    /\ nread = 2
    /\ mpc = "read"
    /\ Len(hist) = 3
    /\ hist[2].call.op = "create_bucket"
    /\ hist[2].ok
    /\ hist[3].cmd = NoneCmd
    /\ hist[3].printed = <<>>

\* the keystore and the wallet hold two addresses at least, the active one
\* among them
TwoAddresses ==
    /\ keyfile # None
    /\ Cardinality(keyfile[1]) >= 2
    /\ Cardinality(wallet[1].addresses) >= 2
    /\ wallet[1].active_address # None
    /\ wallet[1].active_address[1] \in wallet[1].addresses
    /\ wallet[1].active_address[1] \in keyfile[1]

\* C36: after retrieve_wallet returns successfully the keystore holds two
\* addresses at least and the active address is one of them, so neither the
\* assertion of setup_for_read nor the recipient lookup of setup_for_write
\* panics, and the recipient is an address of the wallet other than the
\* active address.
C36_WalletHasRecipient ==
    /\ wallet # None => TwoAddresses
    /\ wpc # "panicked"
    /\ wpc = "write" =>
          /\ recipient # None
          /\ recipient[1] \in wallet[1].addresses
          /\ recipient[1] # active_address[1]

\* setup_for_write returned on a keystore file that held one key: a second
\* was generated, below the first, and is the recipient
C36_Witness ==
    /\ wpc = "write"
    /\ wallet[1].addresses = {2, 4}
    /\ active_address = Some(4)
    /\ recipient = Some(2)

====
